---- MODULE Spec2Model ----
(***************************************************************************)
(* Model of mcp-google-spreadsheet: the path resolution layer over the     *)
(* Drive file store (getFileIDByPathWithContext, getParentIDAndFileName,   *)
(* getSpreadsheetIdWithContext), the Drive handlers (list, copy, rename),  *)
(* the sheet rename handler and the A1 column helpers.                     *)
(*                                                                         *)
(* A Go string is a sequence of chunks.  A chunk is one character ("/",    *)
(* ".", "a", "'") or a run of characters that no operation of the program  *)
(* ever splits (a query keyword, an object id, a mime type).               *)
(***************************************************************************)
EXTENDS Integers, Sequences, FiniteSets, TLC

VARIABLES
    files,      \* the Drive store: object id -> name, mime type, parent, trashed, size
    sheets,     \* the Sheets store: spreadsheet id -> its tabs (sheetId, title, rows)
    grouping,   \* how the Drive store groups the terms of a query
    nextNew,    \* number of objects the store has created
    muts,       \* number of successful mutating requests
    req,        \* the request being served (op = "none" between requests)
    resp,       \* the result of the request
    calls,      \* the remote calls the request issued, in order
    resolved,   \* the ids its path resolutions returned, in order
    auth        \* GoogleAuth: the cached token, the token file, the callback server and
                \* the position of the goroutine inside getClient

vars == <<files, sheets, grouping, nextNew, muts, req, resp, calls, resolved, auth>>

(***************************************************************************)
(* Bounds                                                                  *)
(***************************************************************************)
MaxPathLen == 5
MaxMuts == 1
MaxCol == 720
MaxRow == 12

(***************************************************************************)
(* Strings                                                                 *)
(***************************************************************************)
Slash == "/"
Dot == "."
Quote == "'"
EmptyStr == << >>

\* a local variable of the code (x := v): v is computed once and the rest of
\* the function, F, works on its value
With(v, F(_)) == CHOOSE y \in {F(x) : x \in {v}} : TRUE

PathChars == {Slash, Dot, "a", "b"}

RECURSIVE StringsUpTo(_)
StringsUpTo(n) ==
    IF n = 0 THEN {EmptyStr}
    ELSE LET shorter == StringsUpTo(n - 1)
         IN  shorter \cup {Append(s, c) : s \in {t \in shorter : Len(t) = n - 1}, c \in PathChars}

\* strings.HasPrefix
HasPrefix(s, p) ==
    /\ Len(s) >= Len(p)
    /\ SubSeq(s, 1, Len(p)) = p

\* strings.TrimSuffix
TrimSuffix(s, suf) ==
    IF Len(s) >= Len(suf) /\ SubSeq(s, Len(s) - Len(suf) + 1, Len(s)) = suf
    THEN SubSeq(s, 1, Len(s) - Len(suf))
    ELSE s

\* strings.Split(s, "/"): the pieces between separators, empty pieces kept
RECURSIVE SplitFrom(_, _, _)
SplitFrom(s, i, cur) ==
    IF i > Len(s) THEN <<cur>>
    ELSE IF s[i] = Slash THEN <<cur>> \o SplitFrom(s, i + 1, EmptyStr)
    ELSE SplitFrom(s, i + 1, Append(cur, s[i]))

Split(s) == SplitFrom(s, 1, EmptyStr)

\* strings.Split(s, sep) for a separator of one character
RECURSIVE SplitBy(_, _, _, _)
SplitBy(s, sep, i, cur) ==
    IF i > Len(s) THEN <<cur>>
    ELSE IF s[i] = sep THEN <<cur>> \o SplitBy(s, sep, i + 1, EmptyStr)
    ELSE SplitBy(s, sep, i + 1, Append(cur, s[i]))

\* strings.Join(parts, "/")
RECURSIVE Join(_)
Join(parts) ==
    IF Len(parts) = 0 THEN EmptyStr
    ELSE IF Len(parts) = 1 THEN parts[1]
    ELSE parts[1] \o <<Slash>> \o Join(Tail(parts))

Prefix(parts, k) == SubSeq(parts, 1, k)

DotDot == <<Dot, Dot>>

\* path.Clean, the element loop: empty and "." elements are dropped, ".."
\* removes the previous real element, is dropped at the root of a rooted
\* path and is kept at the front of a relative one
RECURSIVE CleanElems(_, _, _, _)
CleanElems(elems, i, rooted, out) ==
    IF i > Len(elems) THEN out
    ELSE LET e == elems[i]
         IN  IF e = EmptyStr \/ e = <<Dot>> THEN CleanElems(elems, i + 1, rooted, out)
             ELSE IF e = DotDot
                  THEN IF Len(out) > 0 /\ out[Len(out)] # DotDot
                       THEN CleanElems(elems, i + 1, rooted, SubSeq(out, 1, Len(out) - 1))
                       ELSE IF rooted THEN CleanElems(elems, i + 1, rooted, out)
                       ELSE CleanElems(elems, i + 1, rooted, Append(out, e))
                  ELSE CleanElems(elems, i + 1, rooted, Append(out, e))

\* the path used as given
CleanNotApplied(p) == p

\* path.Clean
Clean(p) ==
    IF p = EmptyStr THEN <<Dot>>
    ELSE LET rooted == p[1] = Slash
             out == CleanElems(Split(p), 1, rooted, << >>)
         IN  IF rooted THEN <<Slash>> \o Join(out)
             ELSE IF Len(out) = 0 THEN <<Dot>>
             ELSE Join(out)

\* path.Split: the directory up to and including the last slash, and the rest
RECURSIVE LastSlash(_, _)
LastSlash(s, i) ==
    IF i = 0 THEN 0
    ELSE IF s[i] = Slash THEN i
    ELSE LastSlash(s, i - 1)

PathSplit(p) ==
    LET i == LastSlash(p, Len(p))
    IN  [dir |-> SubSeq(p, 1, i), file |-> SubSeq(p, i + 1, Len(p))]

(***************************************************************************)
(* The Drive file store                                                    *)
(***************************************************************************)
MimeFolder == "application/vnd.google-apps.folder"
MimeSpreadsheet == "application/vnd.google-apps.spreadsheet"
MimeDoc == "application/vnd.google-apps.document"
MimePlain == "text/plain"

NoId == "-"

\* cfg.FolderID
FolderID == "R"

\* the ids the store gives to the objects it creates
NewIds == [i \in 1..(MaxMuts + 1) |-> "N" \o ToString(i)]

\* the ids in the order the store created them
IdOrder == <<"R", "F1", "X1", "S1", "F2", "S2", "T1", "O", "Z1">> \o NewIds

RECURSIVE Reverse(_)
Reverse(s) == IF Len(s) = 0 THEN << >> ELSE Append(Reverse(Tail(s)), Head(s))

\* Files.List without OrderBy returns the matches in an order of the store's
\* choosing, which may differ from one call to the next
Orders == {IdOrder, Reverse(IdOrder)}

\* how the store groups "A and B or C and D": "and" binding tighter than
\* "or", or strictly left to right
Groupings == {"and_first", "left_to_right"}

Obj(name, mime, parent, trashed, size) ==
    [name |-> name, mimeType |-> mime, parent |-> parent, trashed |-> trashed, size |-> size]

InitFiles ==
    [id \in {"R", "F1", "X1", "S1", "F2", "S2", "T1", "O", "Z1"} |->
        CASE id = "R"  -> Obj(<<"r">>, MimeFolder, NoId, FALSE, 0)
          [] id = "F1" -> Obj(<<"a">>, MimeFolder, "R", FALSE, 0)
          [] id = "X1" -> Obj(<<"a">>, MimePlain, "R", FALSE, 7)
          [] id = "S1" -> Obj(<<"b">>, MimeSpreadsheet, "F1", FALSE, 0)
          [] id = "F2" -> Obj(<<"a">>, MimeFolder, "F1", FALSE, 0)
          [] id = "S2" -> Obj(<<"b">>, MimeSpreadsheet, "F2", FALSE, 0)
          [] id = "T1" -> Obj(<<"b">>, MimeSpreadsheet, "R", TRUE, 0)
          [] id = "O"  -> Obj(<<"o">>, MimeFolder, NoId, FALSE, 0)
          [] id = "Z1" -> Obj(<<"b">>, MimeSpreadsheet, "O", FALSE, 0)]

\* the query text of a path segment lookup; the segment is interpolated
\* between the quotes as it is
FileQuery(parentID, part) ==
    <<Quote, parentID, Quote, " in parents", " and ", "name = ", Quote>>
        \o part \o <<Quote, " and ", "trashed = false">>

TypedQuery(parentID, part, mime) ==
    <<Quote, parentID, Quote, " in parents", " and ", "name = ", Quote>>
        \o part \o <<Quote, " and ", "mimeType = ", Quote, mime, Quote, " and ", "trashed = false">>

ChildrenQuery(folderID) ==
    <<Quote, folderID, Quote, " in parents", " and ", "trashed = false">>

\* the store's reading of a query text: quoted runs become string literals,
\* everything else is a keyword
RECURSIVE Tokens(_, _, _, _, _)
Tokens(q, i, inStr, cur, out) ==
    IF i > Len(q) THEN [ok |-> ~inStr, toks |-> out]
    ELSE IF q[i] = Quote
         THEN IF inStr
              THEN Tokens(q, i + 1, FALSE, << >>, Append(out, [t |-> "str", v |-> cur]))
              ELSE Tokens(q, i + 1, TRUE, << >>, out)
         ELSE IF inStr
              THEN Tokens(q, i + 1, TRUE, Append(cur, q[i]), out)
              ELSE Tokens(q, i + 1, FALSE, cur, Append(out, [t |-> "kw", v |-> <<q[i]>>]))

IsKw(tok, w) == tok.t = "kw" /\ tok.v = <<w>>

\* terms joined by " and " / " or "; op is the connective in front of the term
RECURSIVE Terms(_, _, _, _)
Terms(toks, i, op, out) ==
    IF i > Len(toks) THEN [ok |-> FALSE, conds |-> out]
    ELSE LET next(j, cond) ==
                 IF j > Len(toks) THEN [ok |-> TRUE, conds |-> Append(out, cond)]
                 ELSE IF IsKw(toks[j], " and ") THEN Terms(toks, j + 1, "and", Append(out, cond))
                 ELSE IF IsKw(toks[j], " or ") THEN Terms(toks, j + 1, "or", Append(out, cond))
                 ELSE [ok |-> FALSE, conds |-> out]
         IN  IF IsKw(toks[i], "trashed = false")
             THEN next(i + 1, [op |-> op, f |-> "trashed", v |-> << >>])
             ELSE IF i + 1 > Len(toks) THEN [ok |-> FALSE, conds |-> out]
             ELSE IF toks[i].t = "str" /\ IsKw(toks[i + 1], " in parents")
                  THEN next(i + 2, [op |-> op, f |-> "parent", v |-> toks[i].v])
             ELSE IF IsKw(toks[i], "name = ") /\ toks[i + 1].t = "str"
                  THEN next(i + 2, [op |-> op, f |-> "name", v |-> toks[i + 1].v])
             ELSE IF IsKw(toks[i], "mimeType = ") /\ toks[i + 1].t = "str"
                  THEN next(i + 2, [op |-> op, f |-> "mime", v |-> toks[i + 1].v])
             ELSE [ok |-> FALSE, conds |-> out]

ParseQuery(q) ==
    With(Tokens(q, 1, FALSE, << >>, << >>), LAMBDA t :
        IF t.ok THEN With(t.toks, LAMBDA toks : Terms(toks, 1, "and", << >>))
        ELSE [ok |-> FALSE, conds |-> << >>])

TermHolds(o, c) ==
    CASE c.f = "trashed" -> ~o.trashed
      [] c.f = "parent" -> <<o.parent>> = c.v
      [] c.f = "name" -> o.name = c.v
      [] c.f = "mime" -> <<o.mimeType>> = c.v

RECURSIVE HoldsLeftToRight(_, _, _, _)
HoldsLeftToRight(o, conds, i, acc) ==
    IF i > Len(conds) THEN acc
    ELSE HoldsLeftToRight(o, conds, i + 1,
            IF conds[i].op = "and" THEN acc /\ TermHolds(o, conds[i])
            ELSE acc \/ TermHolds(o, conds[i]))

\* a disjunction of conjunctions: cur is the value of the conjunction so far
RECURSIVE HoldsAndFirst(_, _, _, _)
HoldsAndFirst(o, conds, i, cur) ==
    IF i > Len(conds) THEN cur
    ELSE IF conds[i].op = "or"
         THEN cur \/ HoldsAndFirst(o, conds, i + 1, TermHolds(o, conds[i]))
         ELSE HoldsAndFirst(o, conds, i + 1, cur /\ TermHolds(o, conds[i]))

Matches(fs, conds, grp) ==
    {id \in DOMAIN fs :
        IF grp = "and_first" THEN HoldsAndFirst(fs[id], conds, 1, TRUE)
        ELSE HoldsLeftToRight(fs[id], conds, 1, TRUE)}

\* order of names under OrderBy("name")
ChunkOrder == <<" or ", Quote, Dot, Slash, "a", "b", "c", "name = ", "o", "r", "x">>

Rank(c) == CHOOSE i \in 1..Len(ChunkOrder) : ChunkOrder[i] = c

RECURSIVE NameLeq(_, _)
NameLeq(x, y) ==
    IF Len(x) = 0 THEN TRUE
    ELSE IF Len(y) = 0 THEN FALSE
    ELSE IF Rank(x[1]) < Rank(y[1]) THEN TRUE
    ELSE IF Rank(x[1]) > Rank(y[1]) THEN FALSE
    ELSE NameLeq(Tail(x), Tail(y))

RECURSIVE InsertByName(_, _, _)
InsertByName(fs, sorted, id) ==
    IF Len(sorted) = 0 THEN <<id>>
    ELSE IF NameLeq(fs[Head(sorted)].name, fs[id].name)
         THEN <<Head(sorted)>> \o InsertByName(fs, Tail(sorted), id)
         ELSE <<id>> \o sorted

RECURSIVE SortByName(_, _)
SortByName(fs, ids) ==
    IF Len(ids) = 0 THEN << >>
    ELSE With(SortByName(fs, SubSeq(ids, 1, Len(ids) - 1)),
              LAMBDA sorted : InsertByName(fs, sorted, ids[Len(ids)]))

\* Files.List().Q(q).Do(): the ids of the matching objects in the store's order
StoreList(fs, q, env, byName) ==
    With(ParseQuery(q), LAMBDA pq :
        IF ~pq.ok THEN [ok |-> FALSE, ids |-> << >>]
        ELSE With(Matches(fs, pq.conds, env.grouping), LAMBDA m :
             With(SelectSeq(env.ord, LAMBDA id : id \in m), LAMBDA inOrder :
                 [ok |-> TRUE, ids |-> IF byName THEN SortByName(fs, inOrder) ELSE inOrder])))


(***************************************************************************)
(* Errors and the call log                                                 *)
(***************************************************************************)
\* an error is the message of the fmt.Errorf that made it (text, with the
\* string it interpolates in arg), the prefix the handler wrapped it in, and
\* the error kind the message stands for
Err(kind, text, arg) == [kind |-> kind, wrap |-> "", text |-> text, arg |-> arg]

NoErr == Err("ok", "", << >>)

Wrap(w, e) == [e EXCEPT !.wrap = w]

\* one remote call: api is the store method, target/parent/name/kind its
\* arguments, ok whether it succeeded and ret the ids it returned
Call(api, target, parent, name, kind, ok, ret) ==
    [api |-> api, target |-> target, parent |-> parent, name |-> name, kind |-> kind,
     ok |-> ok, ret |-> ret, sheetId |-> -1]

\* a call to the Sheets store, about the tab sheetId of spreadsheet target
SheetCall(api, target, sheetId, name, kind, ok) ==
    [api |-> api, target |-> target, parent |-> NoId, name |-> name, kind |-> kind,
     ok |-> ok, ret |-> << >>, sheetId |-> sheetId]

\* env.failAt = k says that the k-th remote call of the request fails:
\* "service" when the authenticated service cannot be obtained (the call is
\* not issued), "call" when the call itself returns an error
ServiceFails(env, log) == env.failAt = Len(log) + 1 /\ env.failKind = "service"

CallFails(env, log) == env.failAt = Len(log) + 1 /\ env.failKind = "call"

(***************************************************************************)
(* Path resolution                                                         *)
(***************************************************************************)
Res(e, id, log) == [err |-> e, id |-> id, calls |-> log]

\* the loop reporting the whole path for every missing segment
RECURSIVE WalkFileWholePath(_, _, _, _, _, _, _)
WalkFileWholePath(fs, env, filePath, parts, i, parentID, log) ==
    IF i > Len(parts) THEN Res(NoErr, parentID, log)
    ELSE IF ServiceFails(env, log)
         THEN Res(Err("RemoteCallFailure", "failed to get drive service", << >>), NoId, log)
    ELSE With(FileQuery(parentID, parts[i]), LAMBDA query :
         With(StoreList(fs, query, env, FALSE), LAMBDA fileList :
         With(CallFails(env, log) \/ ~fileList.ok, LAMBDA failed :
         With(Append(log, Call("Files.List", NoId, parentID, parts[i], "any", ~failed,
                               IF failed THEN << >> ELSE fileList.ids)), LAMBDA log2 :
             IF failed
             THEN Res(Err("RemoteCallFailure", "failed to list files", << >>), NoId, log2)
             ELSE IF Len(fileList.ids) = 0
                  THEN Res(Err("NotFound", "file not found", filePath), NoId, log2)
                  ELSE WalkFileWholePath(fs, env, filePath, parts, i + 1, fileList.ids[1], log2)))))

\* the loop going on with the last of the matches
RECURSIVE WalkFileLastMatch(_, _, _, _, _, _, _)
WalkFileLastMatch(fs, env, filePath, parts, i, parentID, log) ==
    IF i > Len(parts) THEN Res(NoErr, parentID, log)
    ELSE IF ServiceFails(env, log)
         THEN Res(Err("RemoteCallFailure", "failed to get drive service", << >>), NoId, log)
    ELSE With(FileQuery(parentID, parts[i]), LAMBDA query :
         With(StoreList(fs, query, env, FALSE), LAMBDA fileList :
         With(CallFails(env, log) \/ ~fileList.ok, LAMBDA failed :
         With(Append(log, Call("Files.List", NoId, parentID, parts[i], "any", ~failed,
                               IF failed THEN << >> ELSE fileList.ids)), LAMBDA log2 :
             IF failed
             THEN Res(Err("RemoteCallFailure", "failed to list files", << >>), NoId, log2)
             ELSE IF Len(fileList.ids) = 0
                  THEN IF i = Len(parts)
                       THEN Res(Err("NotFound", "file not found", filePath), NoId, log2)
                       ELSE Res(Err("NotFound", "path not found", Join(Prefix(parts, i))), NoId, log2)
                  ELSE WalkFileLastMatch(fs, env, filePath, parts, i + 1, fileList.ids[Len(fileList.ids)], log2)))))

\* the segment loop of getFileIDByPathWithContext
RECURSIVE WalkFile(_, _, _, _, _, _, _)
WalkFile(fs, env, filePath, parts, i, parentID, log) ==
    IF i > Len(parts) THEN Res(NoErr, parentID, log)
    ELSE IF ServiceFails(env, log)
         THEN Res(Err("RemoteCallFailure", "failed to get drive service", << >>), NoId, log)
    ELSE With(FileQuery(parentID, parts[i]), LAMBDA query :
         With(StoreList(fs, query, env, FALSE), LAMBDA fileList :
         With(CallFails(env, log) \/ ~fileList.ok, LAMBDA failed :
         With(Append(log, Call("Files.List", NoId, parentID, parts[i], "any", ~failed,
                               IF failed THEN << >> ELSE fileList.ids)), LAMBDA log2 :
             IF failed
             THEN Res(Err("RemoteCallFailure", "failed to list files", << >>), NoId, log2)
             ELSE IF Len(fileList.ids) = 0
                  THEN IF i = Len(parts)
                       THEN Res(Err("NotFound", "file not found", filePath), NoId, log2)
                       ELSE Res(Err("NotFound", "path not found", Join(Prefix(parts, i))), NoId, log2)
                  ELSE WalkFile(fs, env, filePath, parts, i + 1, fileList.ids[1], log2)))))

\* the resolver without the early return for the root
getFileIDByPathNoRootCase(fs, env, path, log) ==
    With(Clean(path), LAMBDA filePath :
        IF HasPrefix(filePath, DotDot) \/ HasPrefix(filePath, <<Slash>>)
        THEN Res(Err("InvalidPath", "invalid path: directory traversal is not allowed", << >>), NoId, log)
        ELSE With(Split(filePath), LAMBDA parts :
                 WalkFile(fs, env, filePath, parts, 1, FolderID, log)))

getFileIDByPathWithContext(fs, env, path, log) ==
    With(Clean(path), LAMBDA filePath :
        IF HasPrefix(filePath, DotDot) \/ HasPrefix(filePath, <<Slash>>)
        THEN Res(Err("InvalidPath", "invalid path: directory traversal is not allowed", << >>), NoId, log)
        ELSE IF filePath = <<Dot>> \/ filePath = EmptyStr
             THEN Res(NoErr, FolderID, log)
             ELSE With(Split(filePath), LAMBDA parts :
                      WalkFile(fs, env, filePath, parts, 1, FolderID, log)))

\* the parent lookup resolving the whole path, the file name included
getParentIDAndFileNameWholePath(fs, env, path, log) ==
    With(Clean(path), LAMBDA filePath :
        IF HasPrefix(filePath, DotDot) \/ HasPrefix(filePath, <<Slash>>)
        THEN [err |-> Err("InvalidPath", "invalid path: directory traversal is not allowed", << >>),
              id |-> NoId, name |-> EmptyStr, calls |-> log]
        ELSE IF filePath = <<Dot>> \/ filePath = EmptyStr
             THEN [err |-> Err("InvalidPath", "invalid path: path is empty", << >>),
                   id |-> NoId, name |-> EmptyStr, calls |-> log]
             ELSE With(PathSplit(filePath), LAMBDA sp :
                  With(getFileIDByPathWithContext(fs, env, filePath, log), LAMBDA r :
                      IF r.err # NoErr
                      THEN [err |-> r.err, id |-> NoId, name |-> EmptyStr, calls |-> r.calls]
                      ELSE [err |-> NoErr, id |-> r.calls[Len(r.calls)].parent,
                            name |-> sp.file, calls |-> r.calls])))

getParentIDAndFileName(fs, env, path, log) ==
    With(Clean(path), LAMBDA filePath :
        IF HasPrefix(filePath, DotDot) \/ HasPrefix(filePath, <<Slash>>)
        THEN [err |-> Err("InvalidPath", "invalid path: directory traversal is not allowed", << >>),
              id |-> NoId, name |-> EmptyStr, calls |-> log]
        ELSE IF filePath = <<Dot>> \/ filePath = EmptyStr
             THEN [err |-> Err("InvalidPath", "invalid path: path is empty", << >>),
                   id |-> NoId, name |-> EmptyStr, calls |-> log]
             ELSE With(PathSplit(filePath), LAMBDA sp :
                  IF sp.dir # EmptyStr
                  THEN With(getFileIDByPathWithContext(fs, env, TrimSuffix(sp.dir, <<Slash>>), log),
                            LAMBDA r :
                           IF r.err # NoErr
                           THEN [err |-> r.err, id |-> NoId, name |-> EmptyStr, calls |-> r.calls]
                           ELSE [err |-> NoErr, id |-> r.id, name |-> sp.file, calls |-> r.calls])
                  ELSE [err |-> NoErr, id |-> FolderID, name |-> sp.file, calls |-> log]))

\* the loop asking for a spreadsheet at every segment
RECURSIVE WalkSpreadsheetAllTyped(_, _, _, _, _, _, _)
WalkSpreadsheetAllTyped(fs, env, spreadsheetName, parts, i, parentID, log) ==
    IF i > Len(parts) THEN Res(NoErr, parentID, log)
    ELSE IF ServiceFails(env, log)
         THEN Res(Err("RemoteCallFailure", "failed to get drive service", << >>), NoId, log)
    ELSE With(TypedQuery(parentID, parts[i], MimeSpreadsheet), LAMBDA query :
         With(StoreList(fs, query, env, FALSE), LAMBDA fileList :
         With(CallFails(env, log) \/ ~fileList.ok, LAMBDA failed :
         With(Append(log, Call("Files.List", NoId, parentID, parts[i], "spreadsheet", ~failed,
                               IF failed THEN << >> ELSE fileList.ids)), LAMBDA log2 :
             IF failed
             THEN Res(Err("RemoteCallFailure", "failed to find file/folder", << >>), NoId, log2)
             ELSE IF Len(fileList.ids) = 0
                  THEN IF i = Len(parts)
                       THEN Res(Err("NotFound", "spreadsheet not found", spreadsheetName), NoId, log2)
                       ELSE Res(Err("NotFound", "folder not found", Join(Prefix(parts, i))), NoId, log2)
                  ELSE WalkSpreadsheetAllTyped(fs, env, spreadsheetName, parts, i + 1,
                                               fileList.ids[1], log2)))))

\* the segment loop of getSpreadsheetIdWithContext
RECURSIVE WalkSpreadsheet(_, _, _, _, _, _, _)
WalkSpreadsheet(fs, env, spreadsheetName, parts, i, parentID, log) ==
    IF i > Len(parts) THEN Res(NoErr, parentID, log)
    ELSE IF ServiceFails(env, log)
         THEN Res(Err("RemoteCallFailure", "failed to get drive service", << >>), NoId, log)
    ELSE With(TypedQuery(parentID, parts[i],
                         IF i = Len(parts) THEN MimeSpreadsheet ELSE MimeFolder), LAMBDA query :
         With(StoreList(fs, query, env, FALSE), LAMBDA fileList :
         With(CallFails(env, log) \/ ~fileList.ok, LAMBDA failed :
         With(Append(log, Call("Files.List", NoId, parentID, parts[i],
                               IF i = Len(parts) THEN "spreadsheet" ELSE "folder", ~failed,
                               IF failed THEN << >> ELSE fileList.ids)), LAMBDA log2 :
             IF failed
             THEN Res(Err("RemoteCallFailure", "failed to find file/folder", << >>), NoId, log2)
             ELSE IF Len(fileList.ids) = 0
                  THEN IF i = Len(parts)
                       THEN Res(Err("NotFound", "spreadsheet not found", spreadsheetName), NoId, log2)
                       ELSE Res(Err("NotFound", "folder not found", Join(Prefix(parts, i))), NoId, log2)
                  ELSE WalkSpreadsheet(fs, env, spreadsheetName, parts, i + 1,
                                       fileList.ids[1], log2)))))

getSpreadsheetIdWithContext(fs, env, spreadsheetName, log) ==
    With(Clean(spreadsheetName), LAMBDA filePath :
        IF HasPrefix(filePath, DotDot) \/ HasPrefix(filePath, <<Slash>>)
        THEN Res(Err("InvalidPath", "invalid path: directory traversal is not allowed", << >>), NoId, log)
        ELSE IF filePath = <<Dot>> \/ filePath = EmptyStr
             THEN Res(Err("InvalidPath", "spreadsheet name cannot be empty", << >>), NoId, log)
             ELSE With(Split(filePath), LAMBDA parts :
                      WalkSpreadsheet(fs, env, spreadsheetName, parts, 1, FolderID, log)))


(***************************************************************************)
(* Requests and responses                                                  *)
(***************************************************************************)
\* the store behaviours a request may meet: no failure, or the failure of
\* one of the n remote calls the request issues when nothing fails
Envs(ord, n) ==
    {e \in [failAt : 0..n, failKind : {"service", "call"}, ord : {ord}, grouping : {grouping}] :
        e.failAt = 0 => e.failKind = "call"}

NoFailure(ord) == [failAt |-> 0, failKind |-> "call", ord |-> ord, grouping |-> grouping]

Req(op, path, dst, newName, sheet, env) ==
    [op |-> op, path |-> path, dst |-> dst, newName |-> newName, sheet |-> sheet, env |-> env,
     nums |-> << >>]

NoReq ==
    Req("none", EmptyStr, EmptyStr, EmptyStr, EmptyStr,
        [failAt |-> 0, failKind |-> "call", ord |-> IdOrder, grouping |-> grouping])

Resp(e, id, name, out) == [err |-> e, id |-> id, name |-> name, out |-> out]

NoResp == Resp(NoErr, NoId, EmptyStr, << >>)

Idle == req.op = "none"

\* the injected failure took place
Triggered(env, d) ==
    \/ env.failAt = 0
    \/ env.failKind = "call" /\ env.failAt <= Len(d.calls)
    \/ /\ env.failKind = "service"
       /\ env.failAt = Len(d.calls) + 1
       /\ d.err.text \in {"failed to get drive service", "failed to get sheets service"}

\* the response has been handed to the caller
Return ==
    /\ ~Idle
    /\ req' = NoReq
    /\ resp' = NoResp
    /\ calls' = << >>
    /\ resolved' = << >>
    /\ UNCHANGED <<files, sheets, grouping, nextNew, muts, auth>>

(***************************************************************************)
(* The resolvers on their own                                              *)
(***************************************************************************)
\* paths that close the quote of the query and add a term of their own
InjectionPaths ==
    {<<"x", Quote, " or ", "name = ", Quote, "b">>,
     <<"a", Slash, "x", Quote, " or ", "name = ", Quote, "b">>,
     <<"a", Quote>>}

ResolvePaths == StringsUpTo(MaxPathLen) \cup InjectionPaths

\* the cells of a tab: a grid of rows of equal width, "" an empty cell
GridA ==
    <<<<"1", "2", "">>,
      <<"3", "", "">>,
      <<"", "", "">>,
      <<"", "", "">>,
      <<"", "", "">>>>

GridB == <<<<"", "">>, <<"", "">>>>

InitSheets ==
    [id \in {"S1", "S2", "T1", "Z1"} |->
        IF id = "S2"
        THEN <<[sheetId |-> 7, title |-> <<"b">>, rows |-> GridB]>>
        ELSE <<[sheetId |-> 0, title |-> <<"a">>, rows |-> GridA],
               [sheetId |-> 7, title |-> <<"b">>, rows |-> GridB]>>]

\* a token: n tells tokens apart, expiry is the time it expires at, refresh
\* whether it carries a refresh token
Token(n, expiry, refresh) == [n |-> n, expiry |-> expiry, refresh |-> refresh]

\* the nil *oauth2.Token
NilToken == Token(-1, 0, FALSE)

\* &oauth2.Token{}: no access token, no refresh token, the zero time as expiry
ZeroToken == Token(0, -1, FALSE)

\* the token file: absent, not a token in JSON, or a token
NoFile == [state |-> "none", tok |-> NilToken]

CorruptFile == [state |-> "corrupt", tok |-> NilToken]

TokenFile(t) == [state |-> "token", tok |-> t]

\* the GoogleAuth of a process that has not asked for a client yet, with no
\* token file
InitAuth ==
    [token |-> NilToken, file |-> NoFile, now |-> 0, issued |-> 0, pc |-> "idle", site |-> "none",
     tok |-> NilToken, newToken |-> NilToken, webTok |-> NilToken, webErr |-> "",
     registered |-> FALSE, server |-> "none", port |-> "free", codeCh |-> 0, errCh |-> 0,
     shutdown |-> "none", webCalls |-> 0, webDone |-> 0, started |-> FALSE, result |-> "none",
     client |-> NilToken]

Init ==
    /\ files = InitFiles
    /\ sheets = InitSheets
    /\ grouping \in Groupings
    /\ nextNew = 0
    /\ muts = 0
    /\ req = NoReq
    /\ resp = NoResp
    /\ calls = << >>
    /\ resolved = << >>
    /\ auth = InitAuth

Resolve ==
    /\ Idle
    /\ \E path \in ResolvePaths, ord \in Orders :
        \E r0 \in {getFileIDByPathWithContext(files, NoFailure(ord), path, << >>)} :
        \E env \in Envs(ord, Len(r0.calls)) :
        \E r \in {getFileIDByPathWithContext(files, env, path, << >>)} :
            /\ Triggered(env, r)
            /\ req' = Req("resolve", path, EmptyStr, EmptyStr, EmptyStr, env)
            /\ resp' = Resp(r.err, r.id, EmptyStr, << >>)
            /\ calls' = r.calls
            /\ resolved' = IF r.err = NoErr THEN <<r.id>> ELSE << >>
            /\ UNCHANGED <<files, sheets, grouping, nextNew, muts, auth>>

ResolveParentAndLeaf ==
    /\ Idle
    /\ \E path \in ResolvePaths, ord \in Orders :
        \E r0 \in {getParentIDAndFileName(files, NoFailure(ord), path, << >>)} :
        \E env \in Envs(ord, Len(r0.calls)) :
        \E r \in {getParentIDAndFileName(files, env, path, << >>)} :
            /\ Triggered(env, r)
            /\ req' = Req("resolveParentAndLeaf", path, EmptyStr, EmptyStr, EmptyStr, env)
            /\ resp' = Resp(r.err, r.id, r.name, << >>)
            /\ calls' = r.calls
            /\ resolved' = IF r.err = NoErr THEN <<r.id>> ELSE << >>
            /\ UNCHANGED <<files, sheets, grouping, nextNew, muts, auth>>

ResolveSpreadsheet ==
    /\ Idle
    /\ \E path \in ResolvePaths, ord \in Orders :
        \E r0 \in {getSpreadsheetIdWithContext(files, NoFailure(ord), path, << >>)} :
        \E env \in Envs(ord, Len(r0.calls)) :
        \E r \in {getSpreadsheetIdWithContext(files, env, path, << >>)} :
            /\ Triggered(env, r)
            /\ req' = Req("resolveSpreadsheet", path, EmptyStr, EmptyStr, EmptyStr, env)
            /\ resp' = Resp(r.err, r.id, EmptyStr, << >>)
            /\ calls' = r.calls
            /\ resolved' = IF r.err = NoErr THEN <<r.id>> ELSE << >>
            /\ UNCHANGED <<files, sheets, grouping, nextNew, muts, auth>>

NextResolve == Resolve \/ ResolveParentAndLeaf \/ ResolveSpreadsheet \/ Return

SpecResolve == Init /\ [][NextResolve]_vars


(***************************************************************************)
(* Properties of path resolution (SpecResolve)                             *)
(***************************************************************************)
ResolveOps == {"resolve", "resolveParentAndLeaf", "resolveSpreadsheet"}

HasDotDotSegment(p) == \E i \in 1..Len(Split(p)) : Split(p)[i] = DotDot

\* the depth below the root after the first k segments, never clamped
RECURSIVE Depth(_, _)
Depth(segs, k) ==
    IF k = 0 THEN 0
    ELSE IF segs[k] = DotDot THEN Depth(segs, k - 1) - 1
    ELSE IF segs[k] = EmptyStr \/ segs[k] = <<Dot>> THEN Depth(segs, k - 1)
    ELSE Depth(segs, k - 1) + 1

\* some prefix of the path climbs above the root
Escapes(p) == \E k \in 1..Len(Split(p)) : Depth(Split(p), k) < 0

Rejected == resp.err.kind = "InvalidPath" /\ calls = << >>

\* C1 as stated: every path that contains a '..' segment or begins with '/'
\* makes resolution fail with InvalidPath without any store call.
C1_Original ==
    (req.op \in ResolveOps /\ (HasDotDotSegment(req.path) \/ HasPrefix(req.path, <<Slash>>)))
        => Rejected

\* C1 amended: every path that begins with '/' or whose '..' segments climb
\* above the root makes resolution fail with InvalidPath without any store
\* call (a '..' that a preceding segment cancels is not rejected).
C1_Theorem ==
    (req.op \in ResolveOps /\ (Escapes(req.path) \/ HasPrefix(req.path, <<Slash>>)))
        => Rejected

C1_Witness ==
    /\ req.op = "resolveSpreadsheet"
    /\ Escapes(req.path)
    /\ ~HasPrefix(req.path, DotDot)
    /\ Rejected

\* C3: resolve(root, "") and resolve(root, ".") return the root id and issue
\* no store call.
C3_Theorem ==
    (req.op = "resolve" /\ req.path \in {EmptyStr, <<Dot>>})
        => (resp.err = NoErr /\ resp.id = FolderID /\ calls = << >>)

C3_Witness ==
    /\ req.op = "resolve"
    /\ req.path = <<Dot>>
    /\ resp.id = FolderID
    /\ resolved = <<FolderID>>


\* a path in normal form: no leading slash and no empty, "." or ".." segment
Normalized(p) ==
    /\ p # EmptyStr
    /\ \A i \in 1..Len(Split(p)) : Split(p)[i] \notin {EmptyStr, <<Dot>>, DotDot}

LookupKind(op, i, n) ==
    IF op = "resolveSpreadsheet" THEN (IF i = n THEN "spreadsheet" ELSE "folder") ELSE "any"

\* C4: resolving a normalized path of n segments issues one lookup per
\* segment in path order, each scoped to the id chosen for the previous
\* segment (the root for the first): n lookups on success, k lookups when the
\* k-th segment is the first without a match; a spreadsheet path is looked up
\* folder-typed for the first n-1 segments and spreadsheet-typed for the last.
C4_Theorem ==
    (req.op \in {"resolve", "resolveSpreadsheet"} /\ Normalized(req.path)) =>
        LET segs == Split(req.path)
            n == Len(segs)
        IN  /\ Len(calls) <= n
            /\ \A i \in 1..Len(calls) :
                  /\ calls[i].api = "Files.List"
                  /\ calls[i].name = segs[i]
                  /\ calls[i].kind = LookupKind(req.op, i, n)
                  /\ calls[i].parent = (IF i = 1 THEN FolderID ELSE calls[i - 1].ret[1])
                  /\ (i < Len(calls) => calls[i].ok /\ calls[i].ret # << >>)
                  /\ (calls[i].ok /\ calls[i].ret = << >>) =>
                         (i = Len(calls) /\ resp.err.kind = "NotFound")
            /\ resp.err = NoErr => (Len(calls) = n /\ resp.id = calls[n].ret[1])

C4_Witness ==
    /\ req.op = "resolveSpreadsheet"
    /\ req.path = <<"a", Slash, "a", Slash, "b">>
    /\ resp.err = NoErr
    /\ Len(calls) = 3
    /\ calls[3].kind = "spreadsheet"
    /\ resp.id = "S2"

\* the segments looked up so far, joined into a path
ConsumedPrefix(log) == Join([i \in 1..Len(log) |-> log[i].name])

NoMatch == Len(calls) > 0 /\ calls[Len(calls)].ok /\ calls[Len(calls)].ret = << >>

\* C5 as stated: when a segment has no match the resolution fails with
\* NotFound and the error names the path prefix consumed so far.
C5_Original ==
    (req.op \in ResolveOps /\ NoMatch) =>
        (resp.err.kind = "NotFound" /\ resp.err.arg = ConsumedPrefix(calls))

\* C5 amended: when a segment has no match the resolution fails with
\* NotFound; the error names the path prefix consumed so far, except that
\* resolveSpreadsheet, when the last segment is the missing one, names the
\* spreadsheet path as the caller wrote it.
C5_Theorem ==
    (req.op \in ResolveOps /\ NoMatch) =>
        /\ resp.err.kind = "NotFound"
        /\ resp.err.arg = (IF calls[Len(calls)].kind = "spreadsheet" THEN req.path
                           ELSE ConsumedPrefix(calls))

C5_Witness ==
    /\ req.op = "resolve"
    /\ req.path = <<"a", Slash, "b", Slash, "a">>
    /\ NoMatch
    /\ Len(calls) = 2
    /\ resp.err.arg = <<"a", Slash, "b">>


(***************************************************************************)
(* The Drive handlers                                                      *)
(***************************************************************************)
\* what a handler did: its error or output, the calls it issued, the ids
\* its path resolutions returned and the stores it leaves behind
Done(e, out, log, ids, fs, sh, nn) ==
    [err |-> e, out |-> out, calls |-> log, resolved |-> ids, files |-> fs, sheets |-> sh,
     nextNew |-> nn]

Line(line, name, type, size, n1, n2) ==
    [line |-> line, name |-> name, type |-> type, size |-> size, n1 |-> n1, n2 |-> n2]

FileType(mime) ==
    CASE mime = MimeDoc -> "Google Doc"
      [] mime = MimeSpreadsheet -> "Google Spreadsheet"
      [] mime = "application/vnd.google-apps.presentation" -> "Google Presentation"
      [] mime = "application/vnd.google-apps.form" -> "Google Form"
      [] OTHER -> "File"

\* the text ListFilesHandler builds from the listing, line by line
RenderListing(fs, dirPath, ids) ==
    With(SelectSeq(ids, LAMBDA id : fs[id].mimeType = MimeFolder), LAMBDA folders :
    With(SelectSeq(ids, LAMBDA id : fs[id].mimeType # MimeFolder), LAMBDA others :
    LET folderCount == Len(folders)
        fileCount == Len(others)
    IN  <<Line("Files in directory", dirPath, "", 0, 0, 0), Line("Folders:", EmptyStr, "", 0, 0, 0)>>
        \o [i \in 1..folderCount |-> Line("-", fs[folders[i]].name, "Folder", 0, 0, 0)]
        \o (IF folderCount = 0 THEN <<Line("No folders found", EmptyStr, "", 0, 0, 0)>> ELSE << >>)
        \o <<Line("Files:", EmptyStr, "", 0, 0, 0)>>
        \o [i \in 1..fileCount |->
               Line("-", fs[others[i]].name, FileType(fs[others[i]].mimeType), fs[others[i]].size, 0, 0)]
        \o (IF fileCount = 0 THEN <<Line("No files found", EmptyStr, "", 0, 0, 0)>> ELSE << >>)
        \o <<Line("Total", EmptyStr, "", 0, folderCount, fileCount)>>))

\* the listing requested without OrderBy("name")
ListFilesHandlerUnordered(fs, sh, nn, env, path) ==
    With(IF path = EmptyStr THEN <<Dot>> ELSE path, LAMBDA dirPath :
    With(getFileIDByPathWithContext(fs, env, dirPath, << >>), LAMBDA r :
        IF r.err # NoErr
        THEN Done(Wrap("failed to get folder ID", r.err), << >>, r.calls, << >>, fs, sh, nn)
        ELSE IF ServiceFails(env, r.calls)
        THEN Done(Err("RemoteCallFailure", "failed to get drive service", << >>), << >>, r.calls,
                  <<r.id>>, fs, sh, nn)
        ELSE
    With(ChildrenQuery(r.id), LAMBDA query :
    With(StoreList(fs, query, env, FALSE), LAMBDA fileList :
    With(CallFails(env, r.calls) \/ ~fileList.ok, LAMBDA failed :
    With(Append(r.calls, Call("Files.List", NoId, r.id, EmptyStr, "children", ~failed,
                              IF failed THEN << >> ELSE fileList.ids)), LAMBDA log2 :
        IF failed
        THEN Done(Err("RemoteCallFailure", "failed to list files", << >>), << >>, log2, <<r.id>>,
                  fs, sh, nn)
        ELSE Done(NoErr, RenderListing(fs, dirPath, fileList.ids), log2, <<r.id>>, fs, sh, nn)))))))

ListFilesHandler(fs, sh, nn, env, path) ==
    With(IF path = EmptyStr THEN <<Dot>> ELSE path, LAMBDA dirPath :
    With(getFileIDByPathWithContext(fs, env, dirPath, << >>), LAMBDA r :
        IF r.err # NoErr
        THEN Done(Wrap("failed to get folder ID", r.err), << >>, r.calls, << >>, fs, sh, nn)
        ELSE IF ServiceFails(env, r.calls)
        THEN Done(Err("RemoteCallFailure", "failed to get drive service", << >>), << >>, r.calls,
                  <<r.id>>, fs, sh, nn)
        ELSE
    With(ChildrenQuery(r.id), LAMBDA query :
    With(StoreList(fs, query, env, TRUE), LAMBDA fileList :
    With(CallFails(env, r.calls) \/ ~fileList.ok, LAMBDA failed :
    With(Append(r.calls, Call("Files.List", NoId, r.id, EmptyStr, "children", ~failed,
                              IF failed THEN << >> ELSE fileList.ids)), LAMBDA log2 :
        IF failed
        THEN Done(Err("RemoteCallFailure", "failed to list files", << >>), << >>, log2, <<r.id>>,
                  fs, sh, nn)
        ELSE Done(NoErr, RenderListing(fs, dirPath, fileList.ids), log2, <<r.id>>, fs, sh, nn)))))))

\* Files.Copy: a new object with the given name and parent and the content
\* of the source; the copy of a spreadsheet has the tabs of the source (the
\* store refuses to copy a folder)
StoreCopy(fs, sh, nn, srcID, name, parentID) ==
    LET newID == NewIds[nn + 1]
    IN  [id |-> newID,
         files |-> [id \in DOMAIN fs \cup {newID} |->
                       IF id = newID
                       THEN Obj(name, fs[srcID].mimeType, parentID, FALSE, fs[srcID].size)
                       ELSE fs[id]],
         sheets |-> IF srcID \in DOMAIN sh
                    THEN [id \in DOMAIN sh \cup {newID} |-> IF id = newID THEN sh[srcID] ELSE sh[id]]
                    ELSE sh]

\* the copy made into the root before the destination is resolved
CopyFileHandlerCopyFirst(fs, sh, nn, env, srcPath, dstPath) ==
    With(getFileIDByPathWithContext(fs, env, srcPath, << >>), LAMBDA src :
        IF src.err # NoErr
        THEN Done(Wrap("failed to get source file ID", src.err), << >>, src.calls, << >>, fs, sh, nn)
        ELSE IF ServiceFails(env, src.calls)
        THEN Done(Err("RemoteCallFailure", "failed to get drive service", << >>), << >>, src.calls,
                  <<src.id>>, fs, sh, nn)
        ELSE
    With(src.id, LAMBDA srcFileID :
    With(CallFails(env, src.calls), LAMBDA getFailed :
    With(Append(src.calls, Call("Files.Get", srcFileID, NoId, EmptyStr, "name,mimeType",
                                ~getFailed, << >>)), LAMBDA log2 :
        IF getFailed
        THEN Done(Err("RemoteCallFailure", "failed to get source file", << >>), << >>, log2,
                  <<srcFileID>>, fs, sh, nn)
        ELSE IF ServiceFails(env, log2)
        THEN Done(Err("RemoteCallFailure", "failed to get drive service", << >>), << >>, log2,
                  <<srcFileID>>, fs, sh, nn)
        ELSE
    With(fs[srcFileID].name, LAMBDA srcFileName :
    With(CallFails(env, log2) \/ fs[srcFileID].mimeType = MimeFolder, LAMBDA copyFailed :
    With(Append(log2, Call("Files.Copy", srcFileID, FolderID, srcFileName, "",
                           ~copyFailed, << >>)), LAMBDA log3 :
        IF copyFailed
        THEN Done(Err("RemoteCallFailure", "failed to copy file", << >>), << >>, log3,
                  <<srcFileID>>, fs, sh, nn)
        ELSE
    With(StoreCopy(fs, sh, nn, srcFileID, srcFileName, FolderID), LAMBDA copied :
    With(getParentIDAndFileName(fs, env, dstPath, log3), LAMBDA dst :
        IF dst.err # NoErr
        THEN Done(Wrap("failed to get destination parent ID and file name", dst.err), << >>,
                  dst.calls, <<srcFileID>>, copied.files, copied.sheets, nn + 1)
        ELSE Done(NoErr, <<copied.id>>, dst.calls, <<srcFileID, dst.id>>, copied.files,
                  copied.sheets, nn + 1))))))))))

CopyFileHandler(fs, sh, nn, env, srcPath, dstPath) ==
    With(getFileIDByPathWithContext(fs, env, srcPath, << >>), LAMBDA src :
        IF src.err # NoErr
        THEN Done(Wrap("failed to get source file ID", src.err), << >>, src.calls, << >>, fs, sh, nn)
        ELSE IF ServiceFails(env, src.calls)
        THEN Done(Err("RemoteCallFailure", "failed to get drive service", << >>), << >>, src.calls,
                  <<src.id>>, fs, sh, nn)
        ELSE
    With(src.id, LAMBDA srcFileID :
    With(CallFails(env, src.calls), LAMBDA getFailed :
    With(Append(src.calls, Call("Files.Get", srcFileID, NoId, EmptyStr, "name,mimeType",
                                ~getFailed, << >>)), LAMBDA log2 :
        IF getFailed
        THEN Done(Err("RemoteCallFailure", "failed to get source file", << >>), << >>, log2,
                  <<srcFileID>>, fs, sh, nn)
        ELSE
    With(fs[srcFileID].name, LAMBDA srcFileName :
    With(getParentIDAndFileName(fs, env, dstPath, log2), LAMBDA dst :
        IF dst.err # NoErr
        THEN Done(Wrap("failed to get destination parent ID and file name", dst.err), << >>,
                  dst.calls, <<srcFileID>>, fs, sh, nn)
        ELSE IF ServiceFails(env, dst.calls)
        THEN Done(Err("RemoteCallFailure", "failed to get drive service", << >>), << >>, dst.calls,
                  <<srcFileID, dst.id>>, fs, sh, nn)
        ELSE
    With(IF dst.name = EmptyStr THEN srcFileName ELSE dst.name, LAMBDA dstFileName :
    With(CallFails(env, dst.calls) \/ fs[srcFileID].mimeType = MimeFolder, LAMBDA copyFailed :
    With(Append(dst.calls, Call("Files.Copy", srcFileID, dst.id, dstFileName, "",
                                ~copyFailed, << >>)), LAMBDA log3 :
        IF copyFailed
        THEN Done(Err("RemoteCallFailure", "failed to copy file", << >>), << >>, log3,
                  <<srcFileID, dst.id>>, fs, sh, nn)
        ELSE With(StoreCopy(fs, sh, nn, srcFileID, dstFileName, dst.id), LAMBDA copied :
                 Done(NoErr, <<copied.id>>, log3, <<srcFileID, dst.id>>, copied.files,
                      copied.sheets, nn + 1)))))))))))

\* Files.Update with only the name set
StoreRename(fs, fileID, newName) == [fs EXCEPT ![fileID].name = newName]

\* the rename without the check of the new name
RenameFileHandlerUnchecked(fs, sh, nn, env, path, newName) ==
    With(getFileIDByPathWithContext(fs, env, path, << >>), LAMBDA r :
        IF r.err # NoErr
        THEN Done(Wrap("failed to get file ID", r.err), << >>, r.calls, << >>, fs, sh, nn)
        ELSE IF ServiceFails(env, r.calls)
        THEN Done(Err("RemoteCallFailure", "failed to get drive service", << >>), << >>, r.calls,
                  <<r.id>>, fs, sh, nn)
        ELSE
    With(r.id, LAMBDA fileID :
    With(CallFails(env, r.calls), LAMBDA getFailed :
    With(Append(r.calls, Call("Files.Get", fileID, NoId, EmptyStr, "name", ~getFailed, << >>)),
         LAMBDA log2 :
        IF getFailed
        THEN Done(Err("RemoteCallFailure", "failed to get file", << >>), << >>, log2, <<fileID>>,
                  fs, sh, nn)
        ELSE IF ServiceFails(env, log2)
        THEN Done(Err("RemoteCallFailure", "failed to get drive service", << >>), << >>, log2,
                  <<fileID>>, fs, sh, nn)
        ELSE
    With(CallFails(env, log2), LAMBDA updFailed :
    With(Append(log2, Call("Files.Update", fileID, NoId, newName, "", ~updFailed, << >>)),
         LAMBDA log3 :
        IF updFailed
        THEN Done(Err("RemoteCallFailure", "failed to rename file", << >>), << >>, log3, <<fileID>>,
                  fs, sh, nn)
        ELSE Done(NoErr, <<newName>>, log3, <<fileID>>, StoreRename(fs, fileID, newName), sh,
                  nn)))))))

\* the rename issued a second time when the first did not succeed
RenameFileHandlerRetries(fs, sh, nn, env, path, newName) ==
    With(getFileIDByPathWithContext(fs, env, path, << >>), LAMBDA r :
        IF r.err # NoErr
        THEN Done(Wrap("failed to get file ID", r.err), << >>, r.calls, << >>, fs, sh, nn)
        ELSE IF ServiceFails(env, r.calls)
        THEN Done(Err("RemoteCallFailure", "failed to get drive service", << >>), << >>, r.calls,
                  <<r.id>>, fs, sh, nn)
        ELSE
    With(r.id, LAMBDA fileID :
    With(CallFails(env, r.calls), LAMBDA getFailed :
    With(Append(r.calls, Call("Files.Get", fileID, NoId, EmptyStr, "name", ~getFailed, << >>)),
         LAMBDA log2 :
        IF getFailed
        THEN Done(Err("RemoteCallFailure", "failed to get file", << >>), << >>, log2, <<fileID>>,
                  fs, sh, nn)
        ELSE IF newName = EmptyStr
        THEN Done(Err("InvalidArgument", "new file name cannot be empty", << >>), << >>, log2,
                  <<fileID>>, fs, sh, nn)
        ELSE IF ServiceFails(env, log2)
        THEN Done(Err("RemoteCallFailure", "failed to get drive service", << >>), << >>, log2,
                  <<fileID>>, fs, sh, nn)
        ELSE
    With(CallFails(env, log2), LAMBDA updFailed :
    With(Append(log2, Call("Files.Update", fileID, NoId, newName, "", ~updFailed, << >>)),
         LAMBDA log3 :
        IF updFailed
        THEN Done(NoErr, <<newName>>,
                  Append(log3, Call("Files.Update", fileID, NoId, newName, "", TRUE, << >>)),
                  <<fileID>>, StoreRename(fs, fileID, newName), sh, nn)
        ELSE Done(NoErr, <<newName>>, log3, <<fileID>>, StoreRename(fs, fileID, newName), sh,
                  nn)))))))

RenameFileHandler(fs, sh, nn, env, path, newName) ==
    With(getFileIDByPathWithContext(fs, env, path, << >>), LAMBDA r :
        IF r.err # NoErr
        THEN Done(Wrap("failed to get file ID", r.err), << >>, r.calls, << >>, fs, sh, nn)
        ELSE IF ServiceFails(env, r.calls)
        THEN Done(Err("RemoteCallFailure", "failed to get drive service", << >>), << >>, r.calls,
                  <<r.id>>, fs, sh, nn)
        ELSE
    With(r.id, LAMBDA fileID :
    With(CallFails(env, r.calls), LAMBDA getFailed :
    With(Append(r.calls, Call("Files.Get", fileID, NoId, EmptyStr, "name", ~getFailed, << >>)),
         LAMBDA log2 :
        IF getFailed
        THEN Done(Err("RemoteCallFailure", "failed to get file", << >>), << >>, log2, <<fileID>>,
                  fs, sh, nn)
        ELSE IF newName = EmptyStr
        THEN Done(Err("InvalidArgument", "new file name cannot be empty", << >>), << >>, log2,
                  <<fileID>>, fs, sh, nn)
        ELSE IF ServiceFails(env, log2)
        THEN Done(Err("RemoteCallFailure", "failed to get drive service", << >>), << >>, log2,
                  <<fileID>>, fs, sh, nn)
        ELSE
    With(CallFails(env, log2), LAMBDA updFailed :
    With(Append(log2, Call("Files.Update", fileID, NoId, newName, "", ~updFailed, << >>)),
         LAMBDA log3 :
        IF updFailed
        THEN Done(Err("RemoteCallFailure", "failed to rename file", << >>), << >>, log3, <<fileID>>,
                  fs, sh, nn)
        ELSE Done(NoErr, <<newName>>, log3, <<fileID>>, StoreRename(fs, fileID, newName), sh,
                  nn)))))))


(***************************************************************************)
(* The sheet handlers                                                      *)
(***************************************************************************)
\* index of the first tab with the title, 0 when there is none
RECURSIVE FindSheet(_, _, _)
FindSheet(tabs, title, i) ==
    IF i > Len(tabs) THEN 0
    ELSE IF tabs[i].title = title THEN i
    ELSE FindSheet(tabs, title, i + 1)

getSheetIdWithContext(sh, env, spreadsheetId, sheetName, log) ==
    IF ServiceFails(env, log)
    THEN [err |-> Err("RemoteCallFailure", "failed to get sheets service", << >>),
          sheetId |-> 0, calls |-> log]
    ELSE
    With(CallFails(env, log) \/ spreadsheetId \notin DOMAIN sh, LAMBDA failed :
    With(Append(log, SheetCall("Spreadsheets.Get", spreadsheetId, -1, EmptyStr, "", ~failed)),
         LAMBDA log2 :
        IF failed
        THEN [err |-> Err("RemoteCallFailure", "failed to get spreadsheet", << >>),
              sheetId |-> 0, calls |-> log2]
        ELSE With(FindSheet(sh[spreadsheetId], sheetName, 1), LAMBDA i :
            IF i = 0
            THEN [err |-> Err("NotFound", "sheet not found", sheetName), sheetId |-> 0,
                  calls |-> log2]
            ELSE [err |-> NoErr, sheetId |-> sh[spreadsheetId][i].sheetId, calls |-> log2])))

\* the store refuses a title another tab of the spreadsheet has
TitleTaken(tabs, sheetId, title) ==
    \E i \in 1..Len(tabs) : tabs[i].title = title /\ tabs[i].sheetId # sheetId

\* BatchUpdate with one UpdateSheetProperties request, Fields: "title"
StoreRenameSheet(sh, spreadsheetId, sheetId, title) ==
    [sh EXCEPT ![spreadsheetId] =
        [i \in 1..Len(@) |-> IF @[i].sheetId = sheetId THEN [@[i] EXCEPT !.title = title] ELSE @[i]]]

RenameSheetHandler(fs, sh, nn, env, spreadsheetName, sheetName, newName) ==
    With(getSpreadsheetIdWithContext(fs, env, spreadsheetName, << >>), LAMBDA r :
        IF r.err # NoErr
        THEN Done(Wrap("failed to get spreadsheet ID", r.err), << >>, r.calls, << >>, fs, sh, nn)
        ELSE IF newName = EmptyStr
        THEN Done(Err("InvalidArgument", "new sheet name cannot be empty", << >>), << >>, r.calls,
                  <<r.id>>, fs, sh, nn)
        ELSE
    With(r.id, LAMBDA spreadsheetId :
    With(getSheetIdWithContext(sh, env, spreadsheetId, sheetName, r.calls), LAMBDA t :
        IF t.err # NoErr
        THEN Done(Wrap("failed to get sheet ID", t.err), << >>, t.calls, <<spreadsheetId>>, fs, sh, nn)
        ELSE IF ServiceFails(env, t.calls)
        THEN Done(Err("RemoteCallFailure", "failed to get sheets service", << >>), << >>, t.calls,
                  <<spreadsheetId>>, fs, sh, nn)
        ELSE
    With(CallFails(env, t.calls) \/ TitleTaken(sh[spreadsheetId], t.sheetId, newName),
         LAMBDA updFailed :
    With(Append(t.calls, SheetCall("Spreadsheets.BatchUpdate", spreadsheetId, t.sheetId,
                                   newName, "updateSheetProperties:title", ~updFailed)),
         LAMBDA log3 :
        IF updFailed
        THEN Done(Err("RemoteCallFailure", "failed to rename sheet", << >>), << >>, log3,
                  <<spreadsheetId>>, fs, sh, nn)
        ELSE Done(NoErr, <<newName>>, log3, <<spreadsheetId>>, fs,
                  StoreRenameSheet(sh, spreadsheetId, t.sheetId, newName), nn))))))

(***************************************************************************)
(* Requests to the server                                                  *)
(***************************************************************************)
HandlerPaths ==
    {EmptyStr,
     <<"a">>,
     <<"a", Slash>>,
     <<"c">>,
     <<"a", Slash, "b">>,
     <<"a", Slash, "c">>,
     <<Dot, Dot, Slash, "a">>,
     <<"x", Quote, " or ", "name = ", Quote, "b">>}

SrcPaths == HandlerPaths \ {<<"a", Slash>>, <<"a", Slash, "c">>}

DstPaths == HandlerPaths \ {<<"a">>, <<"a", Slash, "b">>}

SheetPaths == HandlerPaths \ {<<"a">>, <<"a", Slash>>, <<"a", Slash, "c">>}

NewNames == {EmptyStr, <<"c">>}

SheetNames == {<<"a">>, <<"c">>}

Mutates(d) == d.files # files \/ d.sheets # sheets

\* the handler has run to its end
Serve(r, d) ==
    /\ Triggered(r.env, d)
    /\ Mutates(d) => muts < MaxMuts
    /\ req' = r
    /\ resp' = Resp(d.err, NoId, EmptyStr, d.out)
    /\ calls' = d.calls
    /\ resolved' = d.resolved
    /\ files' = d.files
    /\ sheets' = d.sheets
    /\ nextNew' = d.nextNew
    /\ muts' = IF Mutates(d) THEN muts + 1 ELSE muts
    /\ UNCHANGED <<grouping, auth>>

ListFiles ==
    /\ Idle
    /\ \E path \in HandlerPaths, ord \in Orders :
        \E d0 \in {ListFilesHandler(files, sheets, nextNew, NoFailure(ord), path)} :
        \E env \in Envs(ord, Len(d0.calls)) :
        \E d \in {ListFilesHandler(files, sheets, nextNew, env, path)} :
            Serve(Req("listFiles", path, EmptyStr, EmptyStr, EmptyStr, env), d)

CopyFile ==
    /\ Idle
    /\ \E srcPath \in SrcPaths, dstPath \in DstPaths, ord \in Orders :
        \E d0 \in {CopyFileHandler(files, sheets, nextNew, NoFailure(ord), srcPath, dstPath)} :
        \E env \in Envs(ord, Len(d0.calls)) :
        \E d \in {CopyFileHandler(files, sheets, nextNew, env, srcPath, dstPath)} :
            Serve(Req("copyFile", srcPath, dstPath, EmptyStr, EmptyStr, env), d)

RenameFile ==
    /\ Idle
    /\ \E path \in HandlerPaths, newName \in NewNames, ord \in Orders :
        \E d0 \in {RenameFileHandler(files, sheets, nextNew, NoFailure(ord), path, newName)} :
        \E env \in Envs(ord, Len(d0.calls)) :
        \E d \in {RenameFileHandler(files, sheets, nextNew, env, path, newName)} :
            Serve(Req("renameFile", path, EmptyStr, newName, EmptyStr, env), d)

RenameSheet ==
    /\ Idle
    /\ \E path \in SheetPaths, sheetName \in SheetNames, newName \in NewNames, ord \in Orders :
        \E d0 \in {RenameSheetHandler(files, sheets, nextNew, NoFailure(ord), path, sheetName, newName)} :
        \E env \in Envs(ord, Len(d0.calls)) :
        \E d \in {RenameSheetHandler(files, sheets, nextNew, env, path, sheetName, newName)} :
            Serve(Req("renameSheet", path, EmptyStr, newName, sheetName, env), d)

Next == ListFiles \/ CopyFile \/ RenameFile \/ RenameSheet \/ Return

Spec == Init /\ [][Next]_vars


(***************************************************************************)
(* Properties of the handlers (Spec)                                       *)
(***************************************************************************)
\* the object is the root or hangs below it on a chain of non-trashed objects
RECURSIVE InSubtree(_, _)
InSubtree(fs, id) ==
    \/ id = FolderID
    \/ /\ id \in DOMAIN fs
       /\ ~fs[id].trashed
       /\ fs[id].parent # NoId
       /\ InSubtree(fs, fs[id].parent)

\* C2: every id a successful path resolution returns is the root or is
\* reachable from the root through non-trashed objects, and no remote call
\* reads or mutates an object outside the subtree of the root.
C2_Containment ==
    /\ \A i \in 1..Len(resolved) : InSubtree(files, resolved[i])
    /\ \A i \in 1..Len(calls) :
          /\ calls[i].api \in {"Files.Get", "Files.Copy", "Files.Update", "Spreadsheets.Get",
                               "Spreadsheets.BatchUpdate"}
                => InSubtree(files, calls[i].target)
          /\ calls[i].parent # NoId => InSubtree(files, calls[i].parent)

EmptyLeaf(p) == Len(p) > 0 /\ p[Len(p)] = Slash

\* the path in front of the last slash
DirPortion(p) == SubSeq(p, 1, LastSlash(p, Len(p)) - 1)

\* C6: a copyFile whose destination has an empty leaf segment (ends with
\* '/') produces a copy with the name of the source, in the folder the
\* directory portion of the destination resolves to.
C6_CopyKeepsName ==
    [][(req'.op = "copyFile" /\ resp'.err = NoErr /\ EmptyLeaf(req'.dst)) =>
          LET copy == files'[resp'.out[1]]
              dir == getFileIDByPathWithContext(files, req'.env, DirPortion(req'.dst), << >>)
          IN  /\ copy.name = files[resolved'[1]].name
              /\ copy.parent = dir.id]_vars

MutatingApis == {"Files.Copy", "Files.Update", "Spreadsheets.BatchUpdate"}

\* C7: a successful copyFile creates exactly one new object, a child of the
\* resolved destination parent, and leaves the source (every existing object)
\* as it was; when the copy call was not reached because source resolution,
\* the metadata fetch or destination resolution failed, nothing is created.
C7_Theorem ==
    [][req'.op = "copyFile" =>
          IF resp'.err = NoErr
          THEN /\ Cardinality(DOMAIN files' \ DOMAIN files) = 1
               /\ DOMAIN files \subseteq DOMAIN files'
               /\ \A id \in DOMAIN files : files'[id] = files[id]
               /\ resp'.out[1] \in DOMAIN files' \ DOMAIN files
               /\ files'[resp'.out[1]].parent = resolved'[2]
               /\ ~files'[resp'.out[1]].trashed
          ELSE (\A i \in 1..Len(calls') : calls'[i].api # "Files.Copy") => files' = files]_vars

C7_Witness ==
    /\ req.op = "copyFile"
    /\ req.path = <<"a", Slash, "b">>
    /\ req.dst = <<"a", Slash, "c">>
    /\ resp.err = NoErr
    /\ resp.out = <<"N1">>
    /\ files["N1"].parent = "F1"
    /\ files["N1"].name = <<"c">>
    /\ files["S1"].name = <<"b">>

\* C8 as stated: renameFile and renameTab with an empty new name fail with
\* InvalidArgument and issue no mutating call.
C8_Original ==
    (req.op \in {"renameFile", "renameSheet"} /\ req.newName = EmptyStr) =>
        /\ resp.err.kind = "InvalidArgument"
        /\ \A i \in 1..Len(calls) : calls[i].api \notin MutatingApis

\* C8 amended: renameFile and renameTab with an empty new name always fail
\* and issue no mutating call; the failure is InvalidArgument when the path
\* resolved (for renameFile: and the metadata of the file was fetched), and
\* the resolution or remote error otherwise.
C8_Theorem ==
    (req.op \in {"renameFile", "renameSheet"} /\ req.newName = EmptyStr) =>
        /\ resp.err # NoErr
        /\ \A i \in 1..Len(calls) : calls[i].api \notin MutatingApis
        /\ resp.err.kind = "InvalidArgument" <=>
              /\ resolved # << >>
              /\ req.op = "renameFile" =>
                    (Len(calls) > 0 /\ calls[Len(calls)].api = "Files.Get" /\ calls[Len(calls)].ok)

C8_Witness ==
    /\ req.op = "renameFile"
    /\ req.path = <<"a", Slash, "b">>
    /\ req.newName = EmptyStr
    /\ resp.err.kind = "InvalidArgument"
    /\ Len(calls) = 3

\* the lines of the listing from index i to index j
Lines(out, i, j) == [k \in 1..(j - i + 1) |-> out[i + k - 1]]

IndexOf(out, line) == CHOOSE i \in 1..Len(out) : out[i].line = line

Entries(sec) == SelectSeq(sec, LAMBDA l : l.line = "-")

Ascending(sec) == \A i \in 1..(Len(sec) - 1) : NameLeq(sec[i].name, sec[i + 1].name)

\* the entries of a section are the names of the given objects, each as
\* often as there are objects of that name
SameNames(fs, sec, ids) ==
    /\ Len(sec) = Cardinality(ids)
    /\ \A id \in ids :
          Cardinality({i \in 1..Len(sec) : sec[i].name = fs[id].name})
              = Cardinality({o \in ids : fs[o].name = fs[id].name})

\* C9: listFiles renders the non-trashed direct children of the folder,
\* folders and non-folders apart, each part in ascending name order, with
\* counts equal to the sizes of the two parts, and the "No folders found" /
\* "No files found" marker exactly when the part is empty.
C9_Theorem ==
    (req.op = "listFiles" /\ resp.err = NoErr) =>
        LET out == resp.out
            iFiles == IndexOf(out, "Files:")
            folderSec == Lines(out, 3, iFiles - 1)
            fileSec == Lines(out, iFiles + 1, Len(out) - 1)
            total == out[Len(out)]
            kids == {id \in DOMAIN files : files[id].parent = resolved[1] /\ ~files[id].trashed}
            folders == {id \in kids : files[id].mimeType = MimeFolder}
        IN  /\ out[2].line = "Folders:"
            /\ total.line = "Total"
            /\ \A i \in 1..Len(folderSec) :
                  /\ folderSec[i].line \in {"-", "No folders found"}
                  /\ folderSec[i].line = "-" => folderSec[i].type = "Folder"
            /\ \A i \in 1..Len(fileSec) :
                  /\ fileSec[i].line \in {"-", "No files found"}
                  /\ fileSec[i].line = "-" => fileSec[i].type # "Folder"
            /\ SameNames(files, Entries(folderSec), folders)
            /\ SameNames(files, Entries(fileSec), kids \ folders)
            /\ Ascending(Entries(folderSec))
            /\ Ascending(Entries(fileSec))
            /\ total.n1 = Cardinality(folders)
            /\ total.n2 = Cardinality(kids \ folders)
            /\ total.n1 + total.n2 = Len(calls[Len(calls)].ret)
            /\ (folders = {}) <=> (folderSec = <<Line("No folders found", EmptyStr, "", 0, 0, 0)>>)
            /\ (folders # {}) <=> (folderSec = Entries(folderSec))
            /\ (kids \ folders = {}) <=> (fileSec = <<Line("No files found", EmptyStr, "", 0, 0, 0)>>)
            /\ (kids \ folders # {}) <=> (fileSec = Entries(fileSec))

\* a listing of the root with a folder and several files, not all of one name
C9_Witness ==
    /\ req.op = "listFiles"
    /\ req.path = EmptyStr
    /\ resp.err = NoErr
    /\ resp.out[Len(resp.out)].n1 = 1
    /\ resp.out[Len(resp.out)].n2 = 2
    /\ resp.out[5].name # resp.out[6].name


(***************************************************************************)
(* A1 column letters                                                       *)
(***************************************************************************)
Alphabet ==
    <<"A", "B", "C", "D", "E", "F", "G", "H", "I", "J", "K", "L", "M",
      "N", "O", "P", "Q", "R", "S", "T", "U", "V", "W", "X", "Y", "Z">>

Digits == <<"0", "1", "2", "3", "4", "5", "6", "7", "8", "9">>

IsUpper(c) == \E i \in 1..26 : Alphabet[i] = c

IsDigit(c) == \E i \in 1..10 : Digits[i] = c

\* c - 'A' + 1
LetterValue(c) == CHOOSE i \in 1..26 : Alphabet[i] = c

DigitValue(c) == (CHOOSE i \in 1..10 : Digits[i] = c) - 1

\* a / b and a % b of Go: the quotient truncated toward zero
Quo(a, b) == IF a >= 0 THEN a \div b ELSE 0 - ((0 - a) \div b)

Rem(a, b) == a - b * Quo(a, b)

\* string('A' + byte(r)): the character of the byte (65 + r) mod 256, a letter
\* when r is in 0..25
ByteChar(n) ==
    IF n >= 65 /\ n <= 90 THEN Alphabet[n - 64]
    ELSE IF n % 256 = 64 THEN "@"
    ELSE "chr" \o ToString(n % 256)

\* the loop written as plain base 26, without the step down after dividing
RECURSIVE ColumnLoopPlainBase26(_, _)
ColumnLoopPlainBase26(index, result) ==
    LET remainder == index % 26
        result2 == <<Alphabet[remainder + 1]>> \o result
        index2 == index \div 26
    IN  IF index2 <= 0 THEN result2 ELSE ColumnLoopPlainBase26(index2, result2)

\* the loop of columnIndexToLetter, entered with index >= 0
RECURSIVE ColumnLoop(_, _)
ColumnLoop(index, result) ==
    LET remainder == Rem(index, 26)
        result2 == <<ByteChar(65 + remainder)>> \o result
        index2 == Quo(index, 26) - 1
    IN  IF index2 < 0 THEN result2 ELSE ColumnLoop(index2, result2)

columnIndexToLetter(index) == ColumnLoop(index - 1, EmptyStr)

\* strconv.ParseInt(s, 10, 64) within the range of int64
RECURSIVE ParseDigits(_, _, _)
ParseDigits(s, i, acc) ==
    IF i > Len(s) THEN acc ELSE ParseDigits(s, i + 1, acc * 10 + DigitValue(s[i]))

ParseInt(s) ==
    LET signed == Len(s) > 0 /\ s[1] \in {"+", "-"}
        body == IF signed THEN Tail(s) ELSE s
    IN  IF Len(body) = 0 \/ \E i \in 1..Len(body) : ~IsDigit(body[i])
        THEN [ok |-> FALSE, val |-> 0]
        ELSE [ok |-> TRUE,
              val |-> IF signed /\ s[1] = "-" THEN 0 - ParseDigits(body, 1, 0)
                      ELSE ParseDigits(body, 1, 0)]

\* length of the leading run of upper-case letters
RECURSIVE UpperRun(_, _)
UpperRun(s, i) ==
    IF i <= Len(s) /\ IsUpper(s[i]) THEN UpperRun(s, i + 1) ELSE i - 1

RECURSIVE ColumnNumber(_, _, _)
ColumnNumber(colStr, i, col) ==
    IF i > Len(colStr) THEN col
    ELSE ColumnNumber(colStr, i + 1, col * 26 + LetterValue(colStr[i]))

startIndexFromRange(rangeStr) ==
    LET start == SplitBy(rangeStr, ":", 1, EmptyStr)[1]
        i == UpperRun(start, 1)
        colStr == SubSeq(start, 1, i)
        rowStr == SubSeq(start, i + 1, Len(start))
        row == ParseInt(rowStr)
    IN  IF rangeStr = EmptyStr
        THEN [err |-> Err("InvalidArgument", "range must be specified", << >>), col |-> 0, row |-> 0]
        ELSE IF ~row.ok
        THEN [err |-> Err("InvalidArgument", "invalid range", rangeStr), col |-> 0, row |-> 0]
        ELSE [err |-> NoErr, col |-> ColumnNumber(colStr, 1, 0), row |-> row.val]

\* a positive number written in decimal
RECURSIVE Decimal(_)
Decimal(n) == IF n < 10 THEN <<Digits[n + 1]>> ELSE Append(Decimal(n \div 10), Digits[(n % 10) + 1])

\* the cell of column n and the given row in A1 notation, alone or as the
\* start of a range, handed to startIndexFromRange
RoundTrip ==
    /\ Idle
    /\ \E n \in 1..MaxCol, row \in 1..MaxRow, isRange \in BOOLEAN :
        LET letters == columnIndexToLetter(n)
            cell == letters \o Decimal(row)
            rangeStr == IF isRange THEN cell \o <<":">> \o cell ELSE cell
            parsed == startIndexFromRange(rangeStr)
        IN  /\ req' = [Req("roundTrip", rangeStr, EmptyStr, EmptyStr, EmptyStr, NoReq.env)
                          EXCEPT !.nums = <<n, row>>]
            /\ resp' = Resp(parsed.err, NoId, letters, <<parsed.col, parsed.row>>)
            /\ calls' = << >>
            /\ resolved' = << >>
            /\ UNCHANGED <<files, sheets, grouping, nextNew, muts, auth>>

NextCol == RoundTrip \/ Return

SpecCol == Init /\ [][NextCol]_vars

\* the value of a word in bijective base 26: digits A = 1 .. Z = 26
RECURSIVE Pow26(_)
Pow26(k) == IF k = 0 THEN 1 ELSE 26 * Pow26(k - 1)

\* number of words of fewer than k letters
RECURSIVE Shorter(_)
Shorter(k) == IF k <= 1 THEN 0 ELSE Shorter(k - 1) + Pow26(k - 1)

KnownColumns ==
    {<<1, <<"A">>>>, <<26, <<"Z">>>>, <<27, <<"A", "A">>>>, <<52, <<"A", "Z">>>>,
     <<53, <<"B", "A">>>>, <<702, <<"Z", "Z">>>>, <<703, <<"A", "A", "A">>>>}

Bang == "!"

Colon == ":"

\* fmt.Sprintf("%s!%s", sheetName, rangeStr)
FullRange(sheetName, rangeStr) == sheetName \o <<Bang>> \o rangeStr

\* length of the leading run of digits
RECURSIVE DigitRun(_, _)
DigitRun(s, i) ==
    IF i <= Len(s) /\ IsDigit(s[i]) THEN DigitRun(s, i + 1) ELSE i - 1

\* one end of an A1 range as the store reads it: letters, digits or both;
\* col = 0 or row = 0 says that the end leaves the column or the row open
A1Point(s) ==
    With(UpperRun(s, 1), LAMBDA i :
    With(SubSeq(s, i + 1, Len(s)), LAMBDA rest :
        IF Len(s) = 0 \/ DigitRun(rest, 1) # Len(rest)
        THEN [ok |-> FALSE, col |-> 0, row |-> 0]
        ELSE [ok |-> TRUE,
              col |-> ColumnNumber(SubSeq(s, 1, i), 1, 0),
              row |-> IF Len(rest) = 0 THEN 0 ELSE ParseDigits(rest, 1, 0)]))

\* the rectangle an A1 range denotes in a grid of n rows and m columns
A1Rect(a1, n, m) ==
    With(SplitBy(a1, Colon, 1, EmptyStr), LAMBDA ends :
        IF Len(ends) > 2 THEN [ok |-> FALSE]
        ELSE
    With(A1Point(ends[1]), LAMBDA p :
    With(IF Len(ends) = 2 THEN A1Point(ends[2]) ELSE p, LAMBDA q :
        IF ~p.ok \/ ~q.ok \/ (p.row = 0) # (q.row = 0) \/ (p.col = 0) # (q.col = 0)
        THEN [ok |-> FALSE]
        ELSE [ok |-> TRUE,
              r1 |-> IF p.row = 0 THEN 1 ELSE p.row,
              r2 |-> IF q.row = 0 THEN n ELSE q.row,
              c1 |-> IF p.col = 0 THEN 1 ELSE p.col,
              c2 |-> IF q.col = 0 THEN m ELSE q.col,
              cell |-> Len(ends) = 1 /\ p.row # 0 /\ p.col # 0])))

\* a range with its tab: "title!A1:B2", or the bare title for the whole tab
StoreRange(tabs, fullRange) ==
    With(SplitBy(fullRange, Bang, 1, EmptyStr), LAMBDA parts :
    With(FindSheet(tabs, parts[1], 1), LAMBDA t :
        IF t = 0 \/ Len(parts) > 2 THEN [ok |-> FALSE]
        ELSE
    With(Len(tabs[t].rows), LAMBDA n :
    With(Len(tabs[t].rows[1]), LAMBDA m :
        IF Len(parts) = 1
        THEN [ok |-> TRUE, tab |-> t, r1 |-> 1, r2 |-> n, c1 |-> 1, c2 |-> m, cell |-> FALSE]
        ELSE With(A1Rect(parts[2], n, m), LAMBDA rect :
                 IF ~rect.ok \/ rect.r1 > rect.r2 \/ rect.c1 > rect.c2
                    \/ rect.r1 > n \/ rect.c1 > m
                 THEN [ok |-> FALSE]
                 ELSE [ok |-> TRUE, tab |-> t, r1 |-> rect.r1, r2 |-> rect.r2,
                       c1 |-> rect.c1, c2 |-> rect.c2, cell |-> rect.cell])))))

Min(a, b) == IF a <= b THEN a ELSE b

Max(a, b) == IF a >= b THEN a ELSE b

\* a row without its trailing empty cells
RECURSIVE TrimRow(_)
TrimRow(row) ==
    IF Len(row) = 0 \/ row[Len(row)] # "" THEN row
    ELSE TrimRow(SubSeq(row, 1, Len(row) - 1))

\* rows without the trailing empty ones
RECURSIVE TrimRows(_)
TrimRows(rows) ==
    IF Len(rows) = 0 \/ rows[Len(rows)] # << >> THEN rows
    ELSE TrimRows(SubSeq(rows, 1, Len(rows) - 1))

\* the values of a rectangle of the grid as the store returns them: empty
\* trailing cells and empty trailing rows are left out
RectValues(rows, r1, r2, c1, c2) ==
    With([i \in 1..(Min(r2, Len(rows)) - r1 + 1) |->
             TrimRow(SubSeq(rows[r1 + i - 1], c1, Min(c2, Len(rows[1]))))],
         LAMBDA cut : TrimRows(cut))

\* Spreadsheets.Values.Get(spreadsheetId, fullRange).Do()
StoreValuesGet(sh, spreadsheetId, fullRange) ==
    IF spreadsheetId \notin DOMAIN sh THEN [ok |-> FALSE, values |-> << >>]
    ELSE With(StoreRange(sh[spreadsheetId], fullRange), LAMBDA rg :
             IF ~rg.ok THEN [ok |-> FALSE, values |-> << >>]
             ELSE [ok |-> TRUE,
                   values |-> RectValues(sh[spreadsheetId][rg.tab].rows,
                                         rg.r1, rg.r2, rg.c1, rg.c2)])

\* number of cells of a block of data
RECURSIVE CellCount(_)
CellCount(data) == IF Len(data) = 0 THEN 0 ELSE Len(Head(data)) + CellCount(Tail(data))

RECURSIVE MaxWidth(_)
MaxWidth(values) == IF Len(values) = 0 THEN 0 ELSE Max(Len(Head(values)), MaxWidth(Tail(values)))

\* the grid with the data written from row r1, column c1 on
WriteBlock(rows, r1, c1, data) ==
    [i \in 1..Len(rows) |->
        [j \in 1..Len(rows[i]) |->
            IF i >= r1 /\ i - r1 + 1 <= Len(data)
               /\ j >= c1 /\ j - c1 + 1 <= Len(data[i - r1 + 1])
            THEN data[i - r1 + 1][j - c1 + 1]
            ELSE rows[i][j]]]

\* one ValueRange written into the tabs of a spreadsheet: the data must lie
\* within the grid and, unless the range is a single cell, within the range
WriteRange(tabs, fullRange, data) ==
    With(StoreRange(tabs, fullRange), LAMBDA rg :
        IF ~rg.ok THEN [ok |-> FALSE, tabs |-> tabs, cells |-> 0]
        ELSE
    With(tabs[rg.tab].rows, LAMBDA rows :
        IF rg.r1 + Len(data) - 1 > Len(rows)
           \/ rg.c1 + MaxWidth(data) - 1 > Len(rows[1])
           \/ (~rg.cell /\ (rg.r1 + Len(data) - 1 > rg.r2 \/ rg.c1 + MaxWidth(data) - 1 > rg.c2))
        THEN [ok |-> FALSE, tabs |-> tabs, cells |-> 0]
        ELSE [ok |-> TRUE,
              tabs |-> [tabs EXCEPT ![rg.tab].rows = WriteBlock(rows, rg.r1, rg.c1, data)],
              cells |-> CellCount(data)]))

\* Spreadsheets.Values.Update(spreadsheetId, fullRange, valueRange).Do()
StoreValuesUpdate(sh, spreadsheetId, fullRange, data) ==
    IF spreadsheetId \notin DOMAIN sh THEN [ok |-> FALSE, sheets |-> sh, cells |-> 0]
    ELSE With(WriteRange(sh[spreadsheetId], fullRange, data), LAMBDA w :
             [ok |-> w.ok, sheets |-> [sh EXCEPT ![spreadsheetId] = w.tabs], cells |-> w.cells])

\* the value ranges of a batch written one after the other; the batch
\* fails as a whole when one of them cannot be written
RECURSIVE WriteRanges(_, _, _, _)
WriteRanges(tabs, data, i, cells) ==
    IF i > Len(data) THEN [ok |-> TRUE, tabs |-> tabs, cells |-> cells]
    ELSE With(WriteRange(tabs, data[i].range, data[i].values), LAMBDA w :
             IF ~w.ok THEN [ok |-> FALSE, tabs |-> tabs, cells |-> 0]
             ELSE WriteRanges(w.tabs, data, i + 1, cells + w.cells))

\* Spreadsheets.Values.BatchUpdate(spreadsheetId, batchUpdateRequest).Do()
StoreValuesBatchUpdate(sh, spreadsheetId, data) ==
    IF spreadsheetId \notin DOMAIN sh THEN [ok |-> FALSE, sheets |-> sh, cells |-> 0]
    ELSE With(WriteRanges(sh[spreadsheetId], data, 1, 0), LAMBDA w :
             IF ~w.ok THEN [ok |-> FALSE, sheets |-> sh, cells |-> 0]
             ELSE [ok |-> TRUE, sheets |-> [sh EXCEPT ![spreadsheetId] = w.tabs],
                   cells |-> w.cells])

\* index of the tab with the id, 0 when there is none
RECURSIVE FindSheetId(_, _, _)
FindSheetId(tabs, sheetId, i) ==
    IF i > Len(tabs) THEN 0
    ELSE IF tabs[i].sheetId = sheetId THEN i
    ELSE FindSheetId(tabs, sheetId, i + 1)

BlankRow(m) == [j \in 1..m |-> ""]

\* the sequence with count copies of x put in after the first k elements
InsertAt(s, k, count, x) ==
    [i \in 1..(Len(s) + count) |->
        IF i <= k THEN s[i] ELSE IF i <= k + count THEN x ELSE s[i - count]]

\* the sequence without the elements k+1 .. k+count
DeleteAt(s, k, count) ==
    [i \in 1..(Len(s) - count) |-> IF i <= k THEN s[i] ELSE s[i + count]]

\* InsertDimension over [startIndex, endIndex) of the rows or the columns:
\* blank rows or columns are put in before startIndex, which must lie in the
\* grid
InsertDimension(rows, dimension, startIndex, endIndex) ==
    IF dimension = "ROWS"
    THEN InsertAt(rows, startIndex, endIndex - startIndex, BlankRow(Len(rows[1])))
    ELSE [i \in 1..Len(rows) |-> InsertAt(rows[i], startIndex, endIndex - startIndex, "")]

\* DeleteDimension over [startIndex, endIndex)
DeleteDimension(rows, dimension, startIndex, endIndex) ==
    IF dimension = "ROWS"
    THEN DeleteAt(rows, startIndex, endIndex - startIndex)
    ELSE [i \in 1..Len(rows) |-> DeleteAt(rows[i], startIndex, endIndex - startIndex)]

DimensionSize(rows, dimension) == IF dimension = "ROWS" THEN Len(rows) ELSE Len(rows[1])

\* Spreadsheets.BatchUpdate with one InsertDimension or DeleteDimension
\* request: the store refuses a range outside the grid and the deletion of
\* every row or column of the tab
StoreDimension(sh, spreadsheetId, kind, sheetId, dimension, startIndex, endIndex) ==
    IF spreadsheetId \notin DOMAIN sh THEN [ok |-> FALSE, sheets |-> sh]
    ELSE
    With(FindSheetId(sh[spreadsheetId], sheetId, 1), LAMBDA t :
        IF t = 0 \/ startIndex < 0 \/ endIndex <= startIndex THEN [ok |-> FALSE, sheets |-> sh]
        ELSE
    With(sh[spreadsheetId][t].rows, LAMBDA rows :
    With(DimensionSize(rows, dimension), LAMBDA size :
        IF kind = "insertDimension"
        THEN IF startIndex > size THEN [ok |-> FALSE, sheets |-> sh]
             ELSE [ok |-> TRUE,
                   sheets |-> [sh EXCEPT ![spreadsheetId][t].rows =
                                  InsertDimension(rows, dimension, startIndex, endIndex)]]
        ELSE IF endIndex > size \/ endIndex - startIndex >= size
             THEN [ok |-> FALSE, sheets |-> sh]
             ELSE [ok |-> TRUE,
                   sheets |-> [sh EXCEPT ![spreadsheetId][t].rows =
                                  DeleteDimension(rows, dimension, startIndex, endIndex)]])))

\* the titles the store may give to the copy of a tab: the title of the
\* source where the destination has no tab of that title, or a title of
\* its own making
CopyTitles == {"source", "copy_of"}

CopyTitle(tabs, title, mode) ==
    IF mode = "source" /\ FindSheet(tabs, title, 1) = 0 THEN title
    ELSE <<"Copy of ">> \o title

\* the id the store gives to a new tab of the spreadsheet
RECURSIVE MaxSheetId(_)
MaxSheetId(tabs) == IF Len(tabs) = 0 THEN 0 ELSE Max(Head(tabs).sheetId, MaxSheetId(Tail(tabs)))

\* Spreadsheets.Sheets.CopyTo(srcSpreadsheetId, srcSheetId, request).Do(): a
\* new tab at the end of the destination with the cells of the source
StoreCopyTo(sh, srcSpreadsheetId, srcSheetId, dstSpreadsheetId, mode) ==
    IF srcSpreadsheetId \notin DOMAIN sh \/ dstSpreadsheetId \notin DOMAIN sh
    THEN [ok |-> FALSE, sheets |-> sh, sheetId |-> 0]
    ELSE
    With(FindSheetId(sh[srcSpreadsheetId], srcSheetId, 1), LAMBDA t :
        IF t = 0 THEN [ok |-> FALSE, sheets |-> sh, sheetId |-> 0]
        ELSE
    With(MaxSheetId(sh[dstSpreadsheetId]) + 1, LAMBDA newSheetId :
        [ok |-> TRUE,
         sheetId |-> newSheetId,
         sheets |-> [sh EXCEPT ![dstSpreadsheetId] =
                        Append(@, [sh[srcSpreadsheetId][t] EXCEPT
                                      !.sheetId = newSheetId,
                                      !.title = CopyTitle(sh[dstSpreadsheetId], @, mode)])]]))


(***************************************************************************)
(* The cell handlers                                                       *)
(***************************************************************************)
\* a call that reads or writes values: range is the range asked for, values
\* what a read returned or a write carried, before the values the range
\* held when the call reached the store
ValuesCall(api, target, rangeStr, ok, values, before) ==
    [api |-> api, target |-> target, parent |-> NoId, name |-> EmptyStr, kind |-> "values",
     ok |-> ok, ret |-> << >>, sheetId |-> -1, range |-> rangeStr, values |-> values,
     before |-> before]

\* a BatchUpdate with one InsertDimension or DeleteDimension request
DimensionCall(target, sheetId, kind, dimension, startIndex, endIndex, inherit, ok, before) ==
    [api |-> "Spreadsheets.BatchUpdate", target |-> target, parent |-> NoId, name |-> EmptyStr,
     kind |-> kind, ok |-> ok, ret |-> << >>, sheetId |-> sheetId, dimension |-> dimension,
     startIndex |-> startIndex, endIndex |-> endIndex, inheritFromBefore |-> inherit,
     before |-> before]

\* the store behaviours a cell request may meet: a failure as in Envs, a
\* writer that changes a cell between the read and the write of the
\* request, and the title the store gives to a copied tab
CellEnvs(n) ==
    {[failAt |-> e.failAt, failKind |-> e.failKind, ord |-> e.ord, grouping |-> e.grouping,
      other |-> o, copyTitle |-> c] : e \in Envs(IdOrder, n), o \in {"none", "write"},
                                       c \in CopyTitles}

CellNoFailure ==
    [failAt |-> 0, failKind |-> "call", ord |-> IdOrder, grouping |-> grouping,
     other |-> "none", copyTitle |-> "source"]

\* the values the other writer puts into the first cell of the first tab:
\* the first of them, or the second where the cell holds the first already
OtherValue == "9"

OtherValue2 == "8"

\* a store no other writer reaches
InterfereNothing(sh, env, spreadsheetId) == sh

\* the store after the other writer, if there is one, has written
Interfere(sh, env, spreadsheetId) ==
    IF env.other = "write" /\ spreadsheetId \in DOMAIN sh
    THEN [sh EXCEPT ![spreadsheetId][1].rows[1][1] =
                       IF @ = OtherValue THEN OtherValue2 ELSE OtherValue]
    ELSE sh

CellReq(op, path, sheet, count, start, rangeStr, data, env) ==
    [op |-> op, path |-> path, dst |-> EmptyStr, newName |-> EmptyStr, sheet |-> sheet,
     env |-> env, nums |-> <<count, start>>, range |-> rangeStr, data |-> data]

\* a table of formatTableData: the letters of the header and, for each row,
\* its number and its cells filled up to the width of the table
Table(headers, rows) ==
    [line |-> "table", headers |-> headers, rows |-> rows]

formatTableData(startColumn, startRow, values) ==
    With(MaxWidth(values), LAMBDA maxWidth :
        Table([i \in 1..maxWidth |-> columnIndexToLetter(startColumn + i - 1)],
              [i \in 1..Len(values) |->
                  [label |-> startRow + i - 1,
                   cells |-> [j \in 1..maxWidth |->
                                 IF j <= Len(values[i]) THEN values[i][j] ELSE ""]]]))

\* the insert issued over [startRow, startRow + count), the 1-based start
\* taken as an index
AddRowsHandlerOldIndex(fs, sh, nn, env, spreadsheetName, sheetName, count, startRow) ==
    With(getSpreadsheetIdWithContext(fs, env, spreadsheetName, << >>), LAMBDA r :
        IF r.err # NoErr
        THEN Done(Wrap("failed to get spreadsheet ID", r.err), << >>, r.calls, << >>, fs, sh, nn)
        ELSE IF count <= 0
        THEN Done(Err("InvalidArgument", "count must be a positive number", << >>), << >>,
                  r.calls, <<r.id>>, fs, sh, nn)
        ELSE IF startRow <= 0
        THEN Done(Err("InvalidArgument", "start_row must be a positive number", << >>), << >>,
                  r.calls, <<r.id>>, fs, sh, nn)
        ELSE
    With(r.id, LAMBDA spreadsheetId :
    With(getSheetIdWithContext(sh, env, spreadsheetId, sheetName, r.calls), LAMBDA t :
        IF t.err # NoErr
        THEN Done(Wrap("failed to get sheet ID", t.err), << >>, t.calls, <<spreadsheetId>>, fs, sh, nn)
        ELSE IF ServiceFails(env, t.calls)
        THEN Done(Err("RemoteCallFailure", "failed to get sheets service", << >>), << >>, t.calls,
                  <<spreadsheetId>>, fs, sh, nn)
        ELSE
    With(StoreDimension(sh, spreadsheetId, "insertDimension", t.sheetId, "ROWS",
                        startRow, startRow + count), LAMBDA w :
    With(CallFails(env, t.calls) \/ ~w.ok, LAMBDA failed :
    With(Append(t.calls, DimensionCall(spreadsheetId, t.sheetId, "insertDimension", "ROWS",
                                       startRow, startRow + count, FALSE, ~failed,
                                       << >>)), LAMBDA log3 :
        IF failed
        THEN Done(Err("RemoteCallFailure", "failed to add rows", << >>), << >>, log3,
                  <<spreadsheetId>>, fs, sh, nn)
        ELSE Done(NoErr,
                  <<Line(IF startRow > 0 THEN "added rows at index" ELSE "added rows at the end",
                         sheetName, "", 0, count, startRow)>>,
                  log3, <<spreadsheetId>>, fs, w.sheets, nn)))))))

AddRowsHandler(fs, sh, nn, env, spreadsheetName, sheetName, count, startRow) ==
    With(getSpreadsheetIdWithContext(fs, env, spreadsheetName, << >>), LAMBDA r :
        IF r.err # NoErr
        THEN Done(Wrap("failed to get spreadsheet ID", r.err), << >>, r.calls, << >>, fs, sh, nn)
        ELSE IF count <= 0
        THEN Done(Err("InvalidArgument", "count must be a positive number", << >>), << >>,
                  r.calls, <<r.id>>, fs, sh, nn)
        ELSE IF startRow <= 0
        THEN Done(Err("InvalidArgument", "start_row must be a positive number", << >>), << >>,
                  r.calls, <<r.id>>, fs, sh, nn)
        ELSE
    With(r.id, LAMBDA spreadsheetId :
    With(getSheetIdWithContext(sh, env, spreadsheetId, sheetName, r.calls), LAMBDA t :
        IF t.err # NoErr
        THEN Done(Wrap("failed to get sheet ID", t.err), << >>, t.calls, <<spreadsheetId>>, fs, sh, nn)
        ELSE IF ServiceFails(env, t.calls)
        THEN Done(Err("RemoteCallFailure", "failed to get sheets service", << >>), << >>, t.calls,
                  <<spreadsheetId>>, fs, sh, nn)
        ELSE
    With(StoreDimension(sh, spreadsheetId, "insertDimension", t.sheetId, "ROWS",
                        startRow - 1, startRow + count - 1), LAMBDA w :
    With(CallFails(env, t.calls) \/ ~w.ok, LAMBDA failed :
    With(Append(t.calls, DimensionCall(spreadsheetId, t.sheetId, "insertDimension", "ROWS",
                                       startRow - 1, startRow + count - 1, FALSE, ~failed,
                                       << >>)), LAMBDA log3 :
        IF failed
        THEN Done(Err("RemoteCallFailure", "failed to add rows", << >>), << >>, log3,
                  <<spreadsheetId>>, fs, sh, nn)
        ELSE Done(NoErr,
                  <<Line(IF startRow > 0 THEN "added rows at index" ELSE "added rows at the end",
                         sheetName, "", 0, count, startRow)>>,
                  log3, <<spreadsheetId>>, fs, w.sheets, nn)))))))

AddColumnsHandler(fs, sh, nn, env, spreadsheetName, sheetName, count, startColumn) ==
    With(getSpreadsheetIdWithContext(fs, env, spreadsheetName, << >>), LAMBDA r :
        IF r.err # NoErr
        THEN Done(Wrap("failed to get spreadsheet ID", r.err), << >>, r.calls, << >>, fs, sh, nn)
        ELSE IF count <= 0
        THEN Done(Err("InvalidArgument", "count must be a positive number", << >>), << >>,
                  r.calls, <<r.id>>, fs, sh, nn)
        ELSE IF startColumn <= 0
        THEN Done(Err("InvalidArgument", "start_column must be a positive number", << >>), << >>,
                  r.calls, <<r.id>>, fs, sh, nn)
        ELSE
    With(r.id, LAMBDA spreadsheetId :
    With(getSheetIdWithContext(sh, env, spreadsheetId, sheetName, r.calls), LAMBDA t :
        IF t.err # NoErr
        THEN Done(Wrap("failed to get sheet ID", t.err), << >>, t.calls, <<spreadsheetId>>, fs, sh, nn)
        ELSE IF ServiceFails(env, t.calls)
        THEN Done(Err("RemoteCallFailure", "failed to get sheets service", << >>), << >>, t.calls,
                  <<spreadsheetId>>, fs, sh, nn)
        ELSE
    With(StoreDimension(sh, spreadsheetId, "insertDimension", t.sheetId, "COLUMNS",
                        startColumn - 1, startColumn + count - 1), LAMBDA w :
    With(CallFails(env, t.calls) \/ ~w.ok, LAMBDA failed :
    With(Append(t.calls, DimensionCall(spreadsheetId, t.sheetId, "insertDimension", "COLUMNS",
                                       startColumn - 1, startColumn + count - 1, FALSE,
                                       ~failed, << >>)), LAMBDA log3 :
        IF failed
        THEN Done(Err("RemoteCallFailure", "failed to add columns", << >>), << >>, log3,
                  <<spreadsheetId>>, fs, sh, nn)
        ELSE Done(NoErr,
                  <<Line(IF startColumn > 0 THEN "added columns at index"
                         ELSE "added columns at the end",
                         sheetName, "", 0, count, startColumn)>>,
                  log3, <<spreadsheetId>>, fs, w.sheets, nn)))))))


\* the rows read before the deletion reaching one row further than the
\* rows deleted
DeleteRowsHandlerReadOneMore(fs, sh, nn, env, spreadsheetName, sheetName, count, startRow) ==
    With(getSpreadsheetIdWithContext(fs, env, spreadsheetName, << >>), LAMBDA r :
        IF r.err # NoErr
        THEN Done(Wrap("failed to get spreadsheet ID", r.err), << >>, r.calls, << >>, fs, sh, nn)
        ELSE IF count <= 0
        THEN Done(Err("InvalidArgument", "count must be a positive number", << >>), << >>,
                  r.calls, <<r.id>>, fs, sh, nn)
        ELSE IF startRow <= 0
        THEN Done(Err("InvalidArgument", "start row must be a positive number", << >>), << >>,
                  r.calls, <<r.id>>, fs, sh, nn)
        ELSE
    With(r.id, LAMBDA spreadsheetId :
    With(getSheetIdWithContext(sh, env, spreadsheetId, sheetName, r.calls), LAMBDA t :
        IF t.err # NoErr
        THEN Done(Wrap("failed to get sheet ID", t.err), << >>, t.calls, <<spreadsheetId>>, fs, sh, nn)
        ELSE IF ServiceFails(env, t.calls)
        THEN Done(Err("RemoteCallFailure", "failed to get sheets service", << >>), << >>, t.calls,
                  <<spreadsheetId>>, fs, sh, nn)
        ELSE
    With(FullRange(sheetName, Decimal(startRow) \o <<Colon>> \o Decimal(startRow + count)),
         LAMBDA rangeToDelete :
    With(StoreValuesGet(sh, spreadsheetId, rangeToDelete), LAMBDA prevData :
    With(CallFails(env, t.calls) \/ ~prevData.ok, LAMBDA getFailed :
    With(Append(t.calls, ValuesCall("Values.Get", spreadsheetId, rangeToDelete, ~getFailed,
                                    IF getFailed THEN << >> ELSE prevData.values, << >>)),
         LAMBDA log3 :
        IF getFailed
        THEN Done(Err("RemoteCallFailure", "failed to get data before deletion", << >>), << >>,
                  log3, <<spreadsheetId>>, fs, sh, nn)
        ELSE IF ServiceFails(env, log3)
        THEN Done(Err("RemoteCallFailure", "failed to get sheets service", << >>), << >>, log3,
                  <<spreadsheetId>>, fs, sh, nn)
        ELSE
    With(Interfere(sh, env, spreadsheetId), LAMBDA sh2 :
    With(StoreDimension(sh2, spreadsheetId, "deleteDimension", t.sheetId, "ROWS",
                        startRow - 1, startRow + count - 1), LAMBDA w :
    With(CallFails(env, log3) \/ ~w.ok, LAMBDA failed :
    With(Append(log3, DimensionCall(spreadsheetId, t.sheetId, "deleteDimension", "ROWS",
                                    startRow - 1, startRow + count - 1, FALSE, ~failed,
                                    StoreValuesGet(sh2, spreadsheetId, rangeToDelete).values)),
         LAMBDA log4 :
        IF failed
        THEN Done(Err("RemoteCallFailure", "failed to delete rows", << >>), << >>, log4,
                  <<spreadsheetId>>, fs, sh2, nn)
        ELSE Done(NoErr,
                  <<Line("deleted rows starting at index", sheetName, "", 0, count, startRow),
                    Line("deleted data saved", EmptyStr, "", 0, Len(prevData.values),
                         IF Len(prevData.values) > 0 THEN Len(prevData.values[1]) ELSE 0),
                    formatTableData(1, startRow, prevData.values)>>,
                  log4, <<spreadsheetId>>, fs, w.sheets, nn))))))))))))

DeleteRowsHandler(fs, sh, nn, env, spreadsheetName, sheetName, count, startRow) ==
    With(getSpreadsheetIdWithContext(fs, env, spreadsheetName, << >>), LAMBDA r :
        IF r.err # NoErr
        THEN Done(Wrap("failed to get spreadsheet ID", r.err), << >>, r.calls, << >>, fs, sh, nn)
        ELSE IF count <= 0
        THEN Done(Err("InvalidArgument", "count must be a positive number", << >>), << >>,
                  r.calls, <<r.id>>, fs, sh, nn)
        ELSE IF startRow <= 0
        THEN Done(Err("InvalidArgument", "start row must be a positive number", << >>), << >>,
                  r.calls, <<r.id>>, fs, sh, nn)
        ELSE
    With(r.id, LAMBDA spreadsheetId :
    With(getSheetIdWithContext(sh, env, spreadsheetId, sheetName, r.calls), LAMBDA t :
        IF t.err # NoErr
        THEN Done(Wrap("failed to get sheet ID", t.err), << >>, t.calls, <<spreadsheetId>>, fs, sh, nn)
        ELSE IF ServiceFails(env, t.calls)
        THEN Done(Err("RemoteCallFailure", "failed to get sheets service", << >>), << >>, t.calls,
                  <<spreadsheetId>>, fs, sh, nn)
        ELSE
    With(FullRange(sheetName, Decimal(startRow) \o <<Colon>> \o Decimal(startRow + count - 1)),
         LAMBDA rangeToDelete :
    With(StoreValuesGet(sh, spreadsheetId, rangeToDelete), LAMBDA prevData :
    With(CallFails(env, t.calls) \/ ~prevData.ok, LAMBDA getFailed :
    With(Append(t.calls, ValuesCall("Values.Get", spreadsheetId, rangeToDelete, ~getFailed,
                                    IF getFailed THEN << >> ELSE prevData.values, << >>)),
         LAMBDA log3 :
        IF getFailed
        THEN Done(Err("RemoteCallFailure", "failed to get data before deletion", << >>), << >>,
                  log3, <<spreadsheetId>>, fs, sh, nn)
        ELSE IF ServiceFails(env, log3)
        THEN Done(Err("RemoteCallFailure", "failed to get sheets service", << >>), << >>, log3,
                  <<spreadsheetId>>, fs, sh, nn)
        ELSE
    With(Interfere(sh, env, spreadsheetId), LAMBDA sh2 :
    With(StoreDimension(sh2, spreadsheetId, "deleteDimension", t.sheetId, "ROWS",
                        startRow - 1, startRow + count - 1), LAMBDA w :
    With(CallFails(env, log3) \/ ~w.ok, LAMBDA failed :
    With(Append(log3, DimensionCall(spreadsheetId, t.sheetId, "deleteDimension", "ROWS",
                                    startRow - 1, startRow + count - 1, FALSE, ~failed,
                                    StoreValuesGet(sh2, spreadsheetId, rangeToDelete).values)),
         LAMBDA log4 :
        IF failed
        THEN Done(Err("RemoteCallFailure", "failed to delete rows", << >>), << >>, log4,
                  <<spreadsheetId>>, fs, sh2, nn)
        ELSE Done(NoErr,
                  <<Line("deleted rows starting at index", sheetName, "", 0, count, startRow),
                    Line("deleted data saved", EmptyStr, "", 0, Len(prevData.values),
                         IF Len(prevData.values) > 0 THEN Len(prevData.values[1]) ELSE 0),
                    formatTableData(1, startRow, prevData.values)>>,
                  log4, <<spreadsheetId>>, fs, w.sheets, nn))))))))))))

\* a count of zero let through
DeleteColumnsHandlerZeroCount(fs, sh, nn, env, spreadsheetName, sheetName, count, startColumn) ==
    With(getSpreadsheetIdWithContext(fs, env, spreadsheetName, << >>), LAMBDA r :
        IF r.err # NoErr
        THEN Done(Wrap("failed to get spreadsheet ID", r.err), << >>, r.calls, << >>, fs, sh, nn)
        ELSE IF count < 0
        THEN Done(Err("InvalidArgument", "count must be a positive number", << >>), << >>,
                  r.calls, <<r.id>>, fs, sh, nn)
        ELSE IF startColumn <= 0
        THEN Done(Err("InvalidArgument", "start column must be a positive number", << >>), << >>,
                  r.calls, <<r.id>>, fs, sh, nn)
        ELSE
    With(r.id, LAMBDA spreadsheetId :
    With(getSheetIdWithContext(sh, env, spreadsheetId, sheetName, r.calls), LAMBDA t :
        IF t.err # NoErr
        THEN Done(Wrap("failed to get sheet ID", t.err), << >>, t.calls, <<spreadsheetId>>, fs, sh, nn)
        ELSE IF ServiceFails(env, t.calls)
        THEN Done(Err("RemoteCallFailure", "failed to get sheets service", << >>), << >>, t.calls,
                  <<spreadsheetId>>, fs, sh, nn)
        ELSE
    With(FullRange(sheetName, columnIndexToLetter(startColumn) \o <<Colon>>
                       \o columnIndexToLetter(startColumn + count - 1)),
         LAMBDA rangeToDelete :
    With(StoreValuesGet(sh, spreadsheetId, rangeToDelete), LAMBDA prevData :
    With(CallFails(env, t.calls) \/ ~prevData.ok, LAMBDA getFailed :
    With(Append(t.calls, ValuesCall("Values.Get", spreadsheetId, rangeToDelete, ~getFailed,
                                    IF getFailed THEN << >> ELSE prevData.values, << >>)),
         LAMBDA log3 :
        IF getFailed
        THEN Done(Err("RemoteCallFailure", "failed to get data before deletion", << >>), << >>,
                  log3, <<spreadsheetId>>, fs, sh, nn)
        ELSE IF ServiceFails(env, log3)
        THEN Done(Err("RemoteCallFailure", "failed to get sheets service", << >>), << >>, log3,
                  <<spreadsheetId>>, fs, sh, nn)
        ELSE
    With(Interfere(sh, env, spreadsheetId), LAMBDA sh2 :
    With(StoreDimension(sh2, spreadsheetId, "deleteDimension", t.sheetId, "COLUMNS",
                        startColumn - 1, startColumn + count - 1), LAMBDA w :
    With(CallFails(env, log3) \/ ~w.ok, LAMBDA failed :
    With(Append(log3, DimensionCall(spreadsheetId, t.sheetId, "deleteDimension", "COLUMNS",
                                    startColumn - 1, startColumn + count - 1, FALSE, ~failed,
                                    StoreValuesGet(sh2, spreadsheetId, rangeToDelete).values)),
         LAMBDA log4 :
        IF failed
        THEN Done(Err("RemoteCallFailure", "failed to delete columns", << >>), << >>, log4,
                  <<spreadsheetId>>, fs, sh2, nn)
        ELSE Done(NoErr,
                  <<Line("deleted columns starting at index", sheetName, "", 0, count, startColumn),
                    Line("deleted data saved", EmptyStr, "", 0, Len(prevData.values),
                         MaxWidth(prevData.values)),
                    formatTableData(startColumn, 1, prevData.values)>>,
                  log4, <<spreadsheetId>>, fs, w.sheets, nn))))))))))))

\* the read before the deletion taking one column more than the deletion
DeleteColumnsHandlerReadsOneMore(fs, sh, nn, env, spreadsheetName, sheetName, count, startColumn) ==
    With(getSpreadsheetIdWithContext(fs, env, spreadsheetName, << >>), LAMBDA r :
        IF r.err # NoErr
        THEN Done(Wrap("failed to get spreadsheet ID", r.err), << >>, r.calls, << >>, fs, sh, nn)
        ELSE IF count <= 0
        THEN Done(Err("InvalidArgument", "count must be a positive number", << >>), << >>,
                  r.calls, <<r.id>>, fs, sh, nn)
        ELSE IF startColumn <= 0
        THEN Done(Err("InvalidArgument", "start column must be a positive number", << >>), << >>,
                  r.calls, <<r.id>>, fs, sh, nn)
        ELSE
    With(r.id, LAMBDA spreadsheetId :
    With(getSheetIdWithContext(sh, env, spreadsheetId, sheetName, r.calls), LAMBDA t :
        IF t.err # NoErr
        THEN Done(Wrap("failed to get sheet ID", t.err), << >>, t.calls, <<spreadsheetId>>, fs, sh, nn)
        ELSE IF ServiceFails(env, t.calls)
        THEN Done(Err("RemoteCallFailure", "failed to get sheets service", << >>), << >>, t.calls,
                  <<spreadsheetId>>, fs, sh, nn)
        ELSE
    With(FullRange(sheetName, columnIndexToLetter(startColumn) \o <<Colon>>
                       \o columnIndexToLetter(startColumn + count)),
         LAMBDA rangeToDelete :
    With(StoreValuesGet(sh, spreadsheetId, rangeToDelete), LAMBDA prevData :
    With(CallFails(env, t.calls) \/ ~prevData.ok, LAMBDA getFailed :
    With(Append(t.calls, ValuesCall("Values.Get", spreadsheetId, rangeToDelete, ~getFailed,
                                    IF getFailed THEN << >> ELSE prevData.values, << >>)),
         LAMBDA log3 :
        IF getFailed
        THEN Done(Err("RemoteCallFailure", "failed to get data before deletion", << >>), << >>,
                  log3, <<spreadsheetId>>, fs, sh, nn)
        ELSE IF ServiceFails(env, log3)
        THEN Done(Err("RemoteCallFailure", "failed to get sheets service", << >>), << >>, log3,
                  <<spreadsheetId>>, fs, sh, nn)
        ELSE
    With(Interfere(sh, env, spreadsheetId), LAMBDA sh2 :
    With(StoreDimension(sh2, spreadsheetId, "deleteDimension", t.sheetId, "COLUMNS",
                        startColumn - 1, startColumn + count - 1), LAMBDA w :
    With(CallFails(env, log3) \/ ~w.ok, LAMBDA failed :
    With(Append(log3, DimensionCall(spreadsheetId, t.sheetId, "deleteDimension", "COLUMNS",
                                    startColumn - 1, startColumn + count - 1, FALSE, ~failed,
                                    StoreValuesGet(sh2, spreadsheetId, rangeToDelete).values)),
         LAMBDA log4 :
        IF failed
        THEN Done(Err("RemoteCallFailure", "failed to delete columns", << >>), << >>, log4,
                  <<spreadsheetId>>, fs, sh2, nn)
        ELSE Done(NoErr,
                  <<Line("deleted columns starting at index", sheetName, "", 0, count, startColumn),
                    Line("deleted data saved", EmptyStr, "", 0, Len(prevData.values),
                         MaxWidth(prevData.values)),
                    formatTableData(startColumn, 1, prevData.values)>>,
                  log4, <<spreadsheetId>>, fs, w.sheets, nn))))))))))))

DeleteColumnsHandler(fs, sh, nn, env, spreadsheetName, sheetName, count, startColumn) ==
    With(getSpreadsheetIdWithContext(fs, env, spreadsheetName, << >>), LAMBDA r :
        IF r.err # NoErr
        THEN Done(Wrap("failed to get spreadsheet ID", r.err), << >>, r.calls, << >>, fs, sh, nn)
        ELSE IF count <= 0
        THEN Done(Err("InvalidArgument", "count must be a positive number", << >>), << >>,
                  r.calls, <<r.id>>, fs, sh, nn)
        ELSE IF startColumn <= 0
        THEN Done(Err("InvalidArgument", "start column must be a positive number", << >>), << >>,
                  r.calls, <<r.id>>, fs, sh, nn)
        ELSE
    With(r.id, LAMBDA spreadsheetId :
    With(getSheetIdWithContext(sh, env, spreadsheetId, sheetName, r.calls), LAMBDA t :
        IF t.err # NoErr
        THEN Done(Wrap("failed to get sheet ID", t.err), << >>, t.calls, <<spreadsheetId>>, fs, sh, nn)
        ELSE IF ServiceFails(env, t.calls)
        THEN Done(Err("RemoteCallFailure", "failed to get sheets service", << >>), << >>, t.calls,
                  <<spreadsheetId>>, fs, sh, nn)
        ELSE
    With(FullRange(sheetName, columnIndexToLetter(startColumn) \o <<Colon>>
                       \o columnIndexToLetter(startColumn + count - 1)),
         LAMBDA rangeToDelete :
    With(StoreValuesGet(sh, spreadsheetId, rangeToDelete), LAMBDA prevData :
    With(CallFails(env, t.calls) \/ ~prevData.ok, LAMBDA getFailed :
    With(Append(t.calls, ValuesCall("Values.Get", spreadsheetId, rangeToDelete, ~getFailed,
                                    IF getFailed THEN << >> ELSE prevData.values, << >>)),
         LAMBDA log3 :
        IF getFailed
        THEN Done(Err("RemoteCallFailure", "failed to get data before deletion", << >>), << >>,
                  log3, <<spreadsheetId>>, fs, sh, nn)
        ELSE IF ServiceFails(env, log3)
        THEN Done(Err("RemoteCallFailure", "failed to get sheets service", << >>), << >>, log3,
                  <<spreadsheetId>>, fs, sh, nn)
        ELSE
    With(Interfere(sh, env, spreadsheetId), LAMBDA sh2 :
    With(StoreDimension(sh2, spreadsheetId, "deleteDimension", t.sheetId, "COLUMNS",
                        startColumn - 1, startColumn + count - 1), LAMBDA w :
    With(CallFails(env, log3) \/ ~w.ok, LAMBDA failed :
    With(Append(log3, DimensionCall(spreadsheetId, t.sheetId, "deleteDimension", "COLUMNS",
                                    startColumn - 1, startColumn + count - 1, FALSE, ~failed,
                                    StoreValuesGet(sh2, spreadsheetId, rangeToDelete).values)),
         LAMBDA log4 :
        IF failed
        THEN Done(Err("RemoteCallFailure", "failed to delete columns", << >>), << >>, log4,
                  <<spreadsheetId>>, fs, sh2, nn)
        ELSE Done(NoErr,
                  <<Line("deleted columns starting at index", sheetName, "", 0, count, startColumn),
                    Line("deleted data saved", EmptyStr, "", 0, Len(prevData.values),
                         MaxWidth(prevData.values)),
                    formatTableData(startColumn, 1, prevData.values)>>,
                  log4, <<spreadsheetId>>, fs, w.sheets, nn))))))))))))

\* the table of the response made from the values written
UpdateCellsHandlerReportsNew(fs, sh, nn, env, spreadsheetName, sheetName, rangeStr, data) ==
    With(getSpreadsheetIdWithContext(fs, env, spreadsheetName, << >>), LAMBDA r :
        IF r.err # NoErr
        THEN Done(Wrap("failed to get spreadsheet ID", r.err), << >>, r.calls, << >>, fs, sh, nn)
        ELSE IF rangeStr = EmptyStr
        THEN Done(Err("InvalidArgument", "range must be specified", << >>), << >>, r.calls,
                  <<r.id>>, fs, sh, nn)
        ELSE IF Len(data) = 0
        THEN Done(Err("InvalidArgument", "data cannot be empty", << >>), << >>, r.calls,
                  <<r.id>>, fs, sh, nn)
        ELSE IF ServiceFails(env, r.calls)
        THEN Done(Err("RemoteCallFailure", "failed to get sheets service", << >>), << >>, r.calls,
                  <<r.id>>, fs, sh, nn)
        ELSE
    With(r.id, LAMBDA spreadsheetId :
    With(FullRange(sheetName, rangeStr), LAMBDA fullRange :
    With(StoreValuesGet(sh, spreadsheetId, fullRange), LAMBDA prevData :
    With(CallFails(env, r.calls) \/ ~prevData.ok, LAMBDA getFailed :
    With(Append(r.calls, ValuesCall("Values.Get", spreadsheetId, fullRange, ~getFailed,
                                    IF getFailed THEN << >> ELSE prevData.values, << >>)),
         LAMBDA log2 :
        IF getFailed
        THEN Done(Err("RemoteCallFailure", "failed to get previous data", << >>), << >>, log2,
                  <<spreadsheetId>>, fs, sh, nn)
        ELSE IF ServiceFails(env, log2)
        THEN Done(Err("RemoteCallFailure", "failed to get sheets service", << >>), << >>, log2,
                  <<spreadsheetId>>, fs, sh, nn)
        ELSE
    With(Interfere(sh, env, spreadsheetId), LAMBDA sh2 :
    With(StoreValuesUpdate(sh2, spreadsheetId, fullRange, data), LAMBDA w :
    With(CallFails(env, log2) \/ ~w.ok, LAMBDA failed :
    With(Append(log2, ValuesCall("Values.Update", spreadsheetId, fullRange, ~failed, data,
                                 StoreValuesGet(sh2, spreadsheetId, fullRange).values)),
         LAMBDA log3 :
        IF failed
        THEN Done(Err("RemoteCallFailure", "failed to update cells", << >>), << >>, log3,
                  <<spreadsheetId>>, fs, sh2, nn)
        ELSE
    With(startIndexFromRange(rangeStr), LAMBDA start :
        IF start.err # NoErr
        THEN Done(Wrap("failed to parse range", start.err), << >>, log3, <<spreadsheetId>>, fs,
                  w.sheets, nn)
        ELSE Done(NoErr,
                  <<Line("updated cells in range", rangeStr, "", 0, w.cells, 0),
                    Line("previous data saved", rangeStr, "", 0, Len(prevData.values),
                         MaxWidth(prevData.values)),
                    formatTableData(start.col, start.row, data)>>,
                  log3, <<spreadsheetId>>, fs, w.sheets, nn))))))))))))

UpdateCellsHandler(fs, sh, nn, env, spreadsheetName, sheetName, rangeStr, data) ==
    With(getSpreadsheetIdWithContext(fs, env, spreadsheetName, << >>), LAMBDA r :
        IF r.err # NoErr
        THEN Done(Wrap("failed to get spreadsheet ID", r.err), << >>, r.calls, << >>, fs, sh, nn)
        ELSE IF rangeStr = EmptyStr
        THEN Done(Err("InvalidArgument", "range must be specified", << >>), << >>, r.calls,
                  <<r.id>>, fs, sh, nn)
        ELSE IF Len(data) = 0
        THEN Done(Err("InvalidArgument", "data cannot be empty", << >>), << >>, r.calls,
                  <<r.id>>, fs, sh, nn)
        ELSE IF ServiceFails(env, r.calls)
        THEN Done(Err("RemoteCallFailure", "failed to get sheets service", << >>), << >>, r.calls,
                  <<r.id>>, fs, sh, nn)
        ELSE
    With(r.id, LAMBDA spreadsheetId :
    With(FullRange(sheetName, rangeStr), LAMBDA fullRange :
    With(StoreValuesGet(sh, spreadsheetId, fullRange), LAMBDA prevData :
    With(CallFails(env, r.calls) \/ ~prevData.ok, LAMBDA getFailed :
    With(Append(r.calls, ValuesCall("Values.Get", spreadsheetId, fullRange, ~getFailed,
                                    IF getFailed THEN << >> ELSE prevData.values, << >>)),
         LAMBDA log2 :
        IF getFailed
        THEN Done(Err("RemoteCallFailure", "failed to get previous data", << >>), << >>, log2,
                  <<spreadsheetId>>, fs, sh, nn)
        ELSE IF ServiceFails(env, log2)
        THEN Done(Err("RemoteCallFailure", "failed to get sheets service", << >>), << >>, log2,
                  <<spreadsheetId>>, fs, sh, nn)
        ELSE
    With(Interfere(sh, env, spreadsheetId), LAMBDA sh2 :
    With(StoreValuesUpdate(sh2, spreadsheetId, fullRange, data), LAMBDA w :
    With(CallFails(env, log2) \/ ~w.ok, LAMBDA failed :
    With(Append(log2, ValuesCall("Values.Update", spreadsheetId, fullRange, ~failed, data,
                                 StoreValuesGet(sh2, spreadsheetId, fullRange).values)),
         LAMBDA log3 :
        IF failed
        THEN Done(Err("RemoteCallFailure", "failed to update cells", << >>), << >>, log3,
                  <<spreadsheetId>>, fs, sh2, nn)
        ELSE
    With(startIndexFromRange(rangeStr), LAMBDA start :
        IF start.err # NoErr
        THEN Done(Wrap("failed to parse range", start.err), << >>, log3, <<spreadsheetId>>, fs,
                  w.sheets, nn)
        ELSE Done(NoErr,
                  <<Line("updated cells in range", rangeStr, "", 0, w.cells, 0),
                    Line("previous data saved", rangeStr, "", 0, Len(prevData.values),
                         MaxWidth(prevData.values)),
                    formatTableData(start.col, start.row, prevData.values)>>,
                  log3, <<spreadsheetId>>, fs, w.sheets, nn))))))))))))

\* a line of totals written after the marker as well
GetSheetDataHandlerTotalsAlways(fs, sh, nn, env, spreadsheetName, sheetName, rangeStr) ==
    With(getSpreadsheetIdWithContext(fs, env, spreadsheetName, << >>), LAMBDA r :
        IF r.err # NoErr
        THEN Done(Wrap("failed to get spreadsheet ID", r.err), << >>, r.calls, << >>, fs, sh, nn)
        ELSE IF ServiceFails(env, r.calls)
        THEN Done(Err("RemoteCallFailure", "failed to get sheets service", << >>), << >>, r.calls,
                  <<r.id>>, fs, sh, nn)
        ELSE
    With(r.id, LAMBDA spreadsheetId :
    With(IF rangeStr # EmptyStr THEN FullRange(sheetName, rangeStr) ELSE sheetName,
         LAMBDA range_ :
    With(StoreValuesGet(sh, spreadsheetId, range_), LAMBDA got :
    With(CallFails(env, r.calls) \/ ~got.ok, LAMBDA failed :
    With(Append(r.calls, ValuesCall("Values.Get", spreadsheetId, range_, ~failed,
                                    IF failed THEN << >> ELSE got.values, << >>)),
         LAMBDA log2 :
    With(Line("data from sheet", sheetName, "", 0, 0, 0), LAMBDA header :
        IF failed
        THEN Done(Err("RemoteCallFailure", "failed to get sheet data", << >>), << >>, log2,
                  <<spreadsheetId>>, fs, sh, nn)
        ELSE IF Len(got.values) = 0
        THEN Done(NoErr, <<header, Line("No data found.", EmptyStr, "", 0, 0, 0),
                          Line("Total: rows x columns", EmptyStr, "", 0, 0, 0)>>, log2,
                  <<spreadsheetId>>, fs, sh, nn)
        ELSE
    With(IF rangeStr # EmptyStr THEN startIndexFromRange(rangeStr)
         ELSE [err |-> NoErr, col |-> 1, row |-> 1], LAMBDA start :
        IF start.err # NoErr
        THEN Done(Wrap("failed to parse range", start.err), << >>, log2, <<spreadsheetId>>, fs,
                  sh, nn)
        ELSE Done(NoErr,
                  <<header,
                    formatTableData(start.col, start.row, got.values),
                    Line("Total: rows x columns", EmptyStr, "", 0, Len(got.values),
                         MaxWidth(got.values))>>,
                  log2, <<spreadsheetId>>, fs, sh, nn)))))))))

GetSheetDataHandler(fs, sh, nn, env, spreadsheetName, sheetName, rangeStr) ==
    With(getSpreadsheetIdWithContext(fs, env, spreadsheetName, << >>), LAMBDA r :
        IF r.err # NoErr
        THEN Done(Wrap("failed to get spreadsheet ID", r.err), << >>, r.calls, << >>, fs, sh, nn)
        ELSE IF ServiceFails(env, r.calls)
        THEN Done(Err("RemoteCallFailure", "failed to get sheets service", << >>), << >>, r.calls,
                  <<r.id>>, fs, sh, nn)
        ELSE
    With(r.id, LAMBDA spreadsheetId :
    With(IF rangeStr # EmptyStr THEN FullRange(sheetName, rangeStr) ELSE sheetName,
         LAMBDA range_ :
    With(StoreValuesGet(sh, spreadsheetId, range_), LAMBDA got :
    With(CallFails(env, r.calls) \/ ~got.ok, LAMBDA failed :
    With(Append(r.calls, ValuesCall("Values.Get", spreadsheetId, range_, ~failed,
                                    IF failed THEN << >> ELSE got.values, << >>)),
         LAMBDA log2 :
    With(Line("data from sheet", sheetName, "", 0, 0, 0), LAMBDA header :
        IF failed
        THEN Done(Err("RemoteCallFailure", "failed to get sheet data", << >>), << >>, log2,
                  <<spreadsheetId>>, fs, sh, nn)
        ELSE IF Len(got.values) = 0
        THEN Done(NoErr, <<header, Line("No data found.", EmptyStr, "", 0, 0, 0)>>, log2,
                  <<spreadsheetId>>, fs, sh, nn)
        ELSE
    With(IF rangeStr # EmptyStr THEN startIndexFromRange(rangeStr)
         ELSE [err |-> NoErr, col |-> 1, row |-> 1], LAMBDA start :
        IF start.err # NoErr
        THEN Done(Wrap("failed to parse range", start.err), << >>, log2, <<spreadsheetId>>, fs,
                  sh, nn)
        ELSE Done(NoErr,
                  <<header,
                    formatTableData(start.col, start.row, got.values),
                    Line("Total: rows x columns", EmptyStr, "", 0, Len(got.values),
                         MaxWidth(got.values))>>,
                  log2, <<spreadsheetId>>, fs, sh, nn)))))))))

\* the ways a Go map with these entries may be iterated
Orderings(entries) ==
    {order \in [1..Cardinality(entries) -> entries] :
        \A x \in entries : \E i \in 1..Cardinality(entries) : order[i] = x}

\* the first loop of BatchUpdateCellsHandler from its i-th entry on: the
\* check of the data, the read of the previous values and the ValueRange
RECURSIVE BatchReads(_, _, _, _, _, _, _, _, _)
BatchReads(sh, env, spreadsheetId, sheetName, order, i, log, data, previousData) ==
    IF i > Len(order) THEN [err |-> NoErr, calls |-> log, data |-> data, prev |-> previousData]
    ELSE IF Len(order[i].values) = 0
    THEN [err |-> Err("InvalidArgument", "data for range cannot be empty", order[i].range),
          calls |-> log, data |-> data, prev |-> previousData]
    ELSE IF ServiceFails(env, log)
    THEN [err |-> Err("RemoteCallFailure", "failed to get sheets service", << >>),
          calls |-> log, data |-> data, prev |-> previousData]
    ELSE
    With(FullRange(sheetName, order[i].range), LAMBDA fullRange :
    With(StoreValuesGet(sh, spreadsheetId, fullRange), LAMBDA prevData :
    With(CallFails(env, log) \/ ~prevData.ok, LAMBDA getFailed :
    With(Append(log, ValuesCall("Values.Get", spreadsheetId, fullRange, ~getFailed,
                                IF getFailed THEN << >> ELSE prevData.values, << >>)),
         LAMBDA log2 :
        IF getFailed
        THEN [err |-> Err("RemoteCallFailure", "failed to get previous data for range",
                          order[i].range),
              calls |-> log2, data |-> data, prev |-> previousData]
        ELSE BatchReads(sh, env, spreadsheetId, sheetName, order, i + 1, log2,
                        Append(data, [range |-> fullRange, values |-> order[i].values]),
                        previousData \cup {[range |-> order[i].range,
                                            values |-> prevData.values]})))))

\* the last loop of BatchUpdateCellsHandler: a table for each range read
RECURSIVE BatchTables(_, _, _)
BatchTables(order, i, out) ==
    IF i > Len(order) THEN [err |-> NoErr, out |-> out]
    ELSE With(startIndexFromRange(order[i].range), LAMBDA start :
             IF start.err # NoErr
             THEN [err |-> Wrap("failed to parse range", start.err), out |-> << >>]
             ELSE BatchTables(order, i + 1,
                              Append(out, formatTableData(start.col, start.row,
                                                          order[i].values))))

\* the number of ranges reported as the number of cells updated
BatchUpdateCellsHandlerPerRange(fs, sh, nn, env, spreadsheetName, sheetName, ranges) ==
    With(getSpreadsheetIdWithContext(fs, env, spreadsheetName, << >>), LAMBDA r :
        IF r.err # NoErr
        THEN Done(Wrap("failed to get spreadsheet ID", r.err), << >>, r.calls, << >>, fs, sh, nn)
        ELSE IF Cardinality(ranges) = 0
        THEN Done(Err("InvalidArgument", "ranges cannot be empty", << >>), << >>, r.calls,
                  <<r.id>>, fs, sh, nn)
        ELSE
    With(r.id, LAMBDA spreadsheetId :
    With(BatchReads(sh, env, spreadsheetId, sheetName, env.iter, 1, r.calls, << >>, {}),
         LAMBDA b :
        IF b.err # NoErr
        THEN Done(b.err, << >>, b.calls, <<spreadsheetId>>, fs, sh, nn)
        ELSE IF ServiceFails(env, b.calls)
        THEN Done(Err("RemoteCallFailure", "failed to get sheets service", << >>), << >>, b.calls,
                  <<spreadsheetId>>, fs, sh, nn)
        ELSE
    With(Interfere(sh, env, spreadsheetId), LAMBDA sh2 :
    With(StoreValuesBatchUpdate(sh2, spreadsheetId, b.data), LAMBDA w :
    With(CallFails(env, b.calls) \/ ~w.ok, LAMBDA failed :
    With(Append(b.calls,
                ValuesCall("Values.BatchUpdate", spreadsheetId, EmptyStr, ~failed, b.data,
                           [k \in 1..Len(b.data) |->
                               StoreValuesGet(sh2, spreadsheetId, b.data[k].range).values])),
         LAMBDA log3 :
        IF failed
        THEN Done(Err("RemoteCallFailure", "failed to batch update cells", << >>), << >>, log3,
                  <<spreadsheetId>>, fs, sh2, nn)
        ELSE
    With(BatchTables([k \in 1..Len(env.iter2) |->
                         CHOOSE e \in b.prev : e.range = env.iter2[k].range], 1, << >>),
         LAMBDA tables :
        IF tables.err # NoErr
        THEN Done(tables.err, << >>, log3, <<spreadsheetId>>, fs, w.sheets, nn)
        ELSE Done(NoErr,
                  <<Line("updated cells across ranges", sheetName, "", 0, Len(b.data), 1),
                    Line("previous data saved for",
                         [k \in 1..Len(env.iter3) |-> env.iter3[k].range], "", 0, 0, 0)>>
                      \o tables.out,
                  log3, <<spreadsheetId>>, fs, w.sheets, nn)))))))))

\* ranges is the map of the request as a set of entries (range, values);
\* env.iter, env.iter3 and env.iter2 are the orders in which the first loop,
\* the loop listing the ranges and the last loop over a map happen to run
BatchUpdateCellsHandler(fs, sh, nn, env, spreadsheetName, sheetName, ranges) ==
    With(getSpreadsheetIdWithContext(fs, env, spreadsheetName, << >>), LAMBDA r :
        IF r.err # NoErr
        THEN Done(Wrap("failed to get spreadsheet ID", r.err), << >>, r.calls, << >>, fs, sh, nn)
        ELSE IF Cardinality(ranges) = 0
        THEN Done(Err("InvalidArgument", "ranges cannot be empty", << >>), << >>, r.calls,
                  <<r.id>>, fs, sh, nn)
        ELSE
    With(r.id, LAMBDA spreadsheetId :
    With(BatchReads(sh, env, spreadsheetId, sheetName, env.iter, 1, r.calls, << >>, {}),
         LAMBDA b :
        IF b.err # NoErr
        THEN Done(b.err, << >>, b.calls, <<spreadsheetId>>, fs, sh, nn)
        ELSE IF ServiceFails(env, b.calls)
        THEN Done(Err("RemoteCallFailure", "failed to get sheets service", << >>), << >>, b.calls,
                  <<spreadsheetId>>, fs, sh, nn)
        ELSE
    With(Interfere(sh, env, spreadsheetId), LAMBDA sh2 :
    With(StoreValuesBatchUpdate(sh2, spreadsheetId, b.data), LAMBDA w :
    With(CallFails(env, b.calls) \/ ~w.ok, LAMBDA failed :
    With(Append(b.calls,
                ValuesCall("Values.BatchUpdate", spreadsheetId, EmptyStr, ~failed, b.data,
                           [k \in 1..Len(b.data) |->
                               StoreValuesGet(sh2, spreadsheetId, b.data[k].range).values])),
         LAMBDA log3 :
        IF failed
        THEN Done(Err("RemoteCallFailure", "failed to batch update cells", << >>), << >>, log3,
                  <<spreadsheetId>>, fs, sh2, nn)
        ELSE
    With(BatchTables([k \in 1..Len(env.iter2) |->
                         CHOOSE e \in b.prev : e.range = env.iter2[k].range], 1, << >>),
         LAMBDA tables :
        IF tables.err # NoErr
        THEN Done(tables.err, << >>, log3, <<spreadsheetId>>, fs, w.sheets, nn)
        ELSE Done(NoErr,
                  <<Line("updated cells across ranges", sheetName, "", 0, w.cells, 1),
                    Line("previous data saved for",
                         [k \in 1..Len(env.iter3) |-> env.iter3[k].range], "", 0, 0, 0)>>
                      \o tables.out,
                  log3, <<spreadsheetId>>, fs, w.sheets, nn)))))))))

\* the rename aimed at the id of the source tab
CopySheetHandlerRenamesSource(fs, sh, nn, env, srcSpreadsheetName, srcSheetName, dstSpreadsheetName, dstSheetName) ==
    With(getSpreadsheetIdWithContext(fs, env, srcSpreadsheetName, << >>), LAMBDA src :
        IF src.err # NoErr
        THEN Done(Wrap("failed to get source spreadsheet ID", src.err), << >>, src.calls, << >>,
                  fs, sh, nn)
        ELSE
    With(getSpreadsheetIdWithContext(fs, env, dstSpreadsheetName, src.calls), LAMBDA dst :
        IF dst.err # NoErr
        THEN Done(Wrap("failed to get destination spreadsheet ID", dst.err), << >>, dst.calls,
                  <<src.id>>, fs, sh, nn)
        ELSE
    With(<<src.id, dst.id>>, LAMBDA ids :
    With(getSheetIdWithContext(sh, env, src.id, srcSheetName, dst.calls), LAMBDA t :
        IF t.err # NoErr
        THEN Done(Wrap("failed to get source sheet ID", t.err), << >>, t.calls, ids, fs, sh, nn)
        ELSE IF ServiceFails(env, t.calls)
        THEN Done(Err("RemoteCallFailure", "failed to get sheets service", << >>), << >>, t.calls,
                  ids, fs, sh, nn)
        ELSE
    With(StoreCopyTo(sh, src.id, t.sheetId, dst.id, env.copyTitle), LAMBDA copyResponse :
    With(CallFails(env, t.calls) \/ ~copyResponse.ok, LAMBDA copyFailed :
    With(Append(t.calls, [api |-> "Sheets.CopyTo", target |-> src.id, parent |-> dst.id,
                          name |-> EmptyStr, kind |-> "copyTo", ok |-> ~copyFailed,
                          ret |-> IF copyFailed THEN << >> ELSE <<copyResponse.sheetId>>,
                          sheetId |-> t.sheetId]), LAMBDA log2 :
        IF copyFailed
        THEN Done(Err("RemoteCallFailure", "failed to copy sheet", << >>), << >>, log2, ids, fs,
                  sh, nn)
        ELSE IF ServiceFails(env, log2)
        THEN Done(Err("RemoteCallFailure", "failed to get sheets service", << >>), << >>, log2,
                  ids, fs, copyResponse.sheets, nn)
        ELSE
    With(t.sheetId, LAMBDA newSheetId :
    With(CallFails(env, log2)
             \/ TitleTaken(copyResponse.sheets[dst.id], newSheetId, dstSheetName),
         LAMBDA updFailed :
    With(Append(log2, SheetCall("Spreadsheets.BatchUpdate", dst.id, newSheetId, dstSheetName,
                                "updateSheetProperties:title", ~updFailed)), LAMBDA log3 :
        IF updFailed
        THEN Done(Err("RemoteCallFailure", "failed to rename copied sheet", << >>), << >>, log3,
                  ids, fs, copyResponse.sheets, nn)
        ELSE Done(NoErr, <<Line("sheet copied", dstSheetName, "", 0, 0, 0)>>, log3, ids, fs,
                  StoreRenameSheet(copyResponse.sheets, dst.id, newSheetId, dstSheetName),
                  nn)))))))))))

CopySheetHandler(fs, sh, nn, env, srcSpreadsheetName, srcSheetName, dstSpreadsheetName, dstSheetName) ==
    With(getSpreadsheetIdWithContext(fs, env, srcSpreadsheetName, << >>), LAMBDA src :
        IF src.err # NoErr
        THEN Done(Wrap("failed to get source spreadsheet ID", src.err), << >>, src.calls, << >>,
                  fs, sh, nn)
        ELSE
    With(getSpreadsheetIdWithContext(fs, env, dstSpreadsheetName, src.calls), LAMBDA dst :
        IF dst.err # NoErr
        THEN Done(Wrap("failed to get destination spreadsheet ID", dst.err), << >>, dst.calls,
                  <<src.id>>, fs, sh, nn)
        ELSE
    With(<<src.id, dst.id>>, LAMBDA ids :
    With(getSheetIdWithContext(sh, env, src.id, srcSheetName, dst.calls), LAMBDA t :
        IF t.err # NoErr
        THEN Done(Wrap("failed to get source sheet ID", t.err), << >>, t.calls, ids, fs, sh, nn)
        ELSE IF ServiceFails(env, t.calls)
        THEN Done(Err("RemoteCallFailure", "failed to get sheets service", << >>), << >>, t.calls,
                  ids, fs, sh, nn)
        ELSE
    With(StoreCopyTo(sh, src.id, t.sheetId, dst.id, env.copyTitle), LAMBDA copyResponse :
    With(CallFails(env, t.calls) \/ ~copyResponse.ok, LAMBDA copyFailed :
    With(Append(t.calls, [api |-> "Sheets.CopyTo", target |-> src.id, parent |-> dst.id,
                          name |-> EmptyStr, kind |-> "copyTo", ok |-> ~copyFailed,
                          ret |-> IF copyFailed THEN << >> ELSE <<copyResponse.sheetId>>,
                          sheetId |-> t.sheetId]), LAMBDA log2 :
        IF copyFailed
        THEN Done(Err("RemoteCallFailure", "failed to copy sheet", << >>), << >>, log2, ids, fs,
                  sh, nn)
        ELSE IF ServiceFails(env, log2)
        THEN Done(Err("RemoteCallFailure", "failed to get sheets service", << >>), << >>, log2,
                  ids, fs, copyResponse.sheets, nn)
        ELSE
    With(copyResponse.sheetId, LAMBDA newSheetId :
    With(CallFails(env, log2)
             \/ TitleTaken(copyResponse.sheets[dst.id], newSheetId, dstSheetName),
         LAMBDA updFailed :
    With(Append(log2, SheetCall("Spreadsheets.BatchUpdate", dst.id, newSheetId, dstSheetName,
                                "updateSheetProperties:title", ~updFailed)), LAMBDA log3 :
        IF updFailed
        THEN Done(Err("RemoteCallFailure", "failed to rename copied sheet", << >>), << >>, log3,
                  ids, fs, copyResponse.sheets, nn)
        ELSE Done(NoErr, <<Line("sheet copied", dstSheetName, "", 0, 0, 0)>>, log3, ids, fs,
                  StoreRenameSheet(copyResponse.sheets, dst.id, newSheetId, dstSheetName),
                  nn)))))))))))

(***************************************************************************)
(* Requests to the cell handlers                                           *)
(***************************************************************************)
MaxCount == 3

MaxStart == 5

Counts == -1..MaxCount

Starts == -1..MaxStart

CellPaths == {EmptyStr, <<"c">>, <<"a", Slash, "b">>}

\* the other writer wrote: the request came to the call that writes
Interfered(d) ==
    \E i \in 1..Len(d.calls) :
        \/ d.calls[i].api \in {"Values.Update", "Values.BatchUpdate"}
        \/ d.calls[i].api = "Spreadsheets.BatchUpdate" /\ d.calls[i].kind = "deleteDimension"

\* the store made the copy it names
Copied(d) == \E i \in 1..Len(d.calls) : d.calls[i].api = "Sheets.CopyTo" /\ d.calls[i].ok

CellTriggered(env, d) ==
    /\ Triggered(env, d)
    /\ env.other = "write" => Interfered(d)
    /\ env.copyTitle # "source" => Copied(d)

ServeCells(r, d) == CellTriggered(r.env, d) /\ Serve(r, d)

\* the cell requests are followed on stores that have taken fewer than
\* MaxMuts mutating requests
Ready == Idle /\ muts < MaxMuts

AddRows ==
    /\ Ready
    /\ \E path \in CellPaths, sheetName \in SheetNames, count \in Counts, startRow \in Starts :
        \E d0 \in {AddRowsHandler(files, sheets, nextNew, CellNoFailure, path, sheetName, count, startRow)} :
        \E env \in CellEnvs(Len(d0.calls)) :
        \E d \in {AddRowsHandler(files, sheets, nextNew, env, path, sheetName, count, startRow)} :
            ServeCells(CellReq("addRows", path, sheetName, count, startRow, EmptyStr, << >>, env), d)

AddColumns ==
    /\ Ready
    /\ \E path \in CellPaths, sheetName \in SheetNames, count \in Counts, startColumn \in Starts :
        \E d0 \in {AddColumnsHandler(files, sheets, nextNew, CellNoFailure, path, sheetName, count, startColumn)} :
        \E env \in CellEnvs(Len(d0.calls)) :
        \E d \in {AddColumnsHandler(files, sheets, nextNew, env, path, sheetName, count, startColumn)} :
            ServeCells(CellReq("addColumns", path, sheetName, count, startColumn, EmptyStr, << >>, env), d)

DeleteRows ==
    /\ Ready
    /\ \E path \in CellPaths, sheetName \in SheetNames, count \in Counts, startRow \in Starts :
        \E d0 \in {DeleteRowsHandler(files, sheets, nextNew, CellNoFailure, path, sheetName, count, startRow)} :
        \E env \in CellEnvs(Len(d0.calls)) :
        \E d \in {DeleteRowsHandler(files, sheets, nextNew, env, path, sheetName, count, startRow)} :
            ServeCells(CellReq("deleteRows", path, sheetName, count, startRow, EmptyStr, << >>, env), d)

DeleteColumns ==
    /\ Ready
    /\ \E path \in CellPaths, sheetName \in SheetNames, count \in Counts, startColumn \in Starts :
        \E d0 \in {DeleteColumnsHandler(files, sheets, nextNew, CellNoFailure, path, sheetName, count, startColumn)} :
        \E env \in CellEnvs(Len(d0.calls)) :
        \E d \in {DeleteColumnsHandler(files, sheets, nextNew, env, path, sheetName, count, startColumn)} :
            ServeCells(CellReq("deleteColumns", path, sheetName, count, startColumn, EmptyStr, << >>, env), d)

\* ranges in A1 notation: none, a cell, a block, an empty cell, whole columns
Ranges ==
    {EmptyStr,
     <<"A", "1">>,
     <<"A", "1", Colon, "B", "2">>,
     <<"B", "2">>,
     <<"A", Colon, "B">>,
     <<"D", "1">>}

\* rows of values to write
DataSets == {<< >>, <<<<"7">>>>, <<<<"7", "8">>, <<"6">>>>}

UpdateCells ==
    /\ Ready
    /\ \E path \in CellPaths, sheetName \in SheetNames, rangeStr \in Ranges, data \in DataSets :
        \E d0 \in {UpdateCellsHandler(files, sheets, nextNew, CellNoFailure, path, sheetName, rangeStr, data)} :
        \E env \in CellEnvs(Len(d0.calls)) :
        \E d \in {UpdateCellsHandler(files, sheets, nextNew, env, path, sheetName, rangeStr, data)} :
            ServeCells(CellReq("updateCells", path, sheetName, 0, 0, rangeStr, data, env), d)

GetSheetData ==
    /\ Ready
    /\ \E path \in CellPaths, sheetName \in SheetNames \cup {<<"b">>}, rangeStr \in Ranges :
        \E d0 \in {GetSheetDataHandler(files, sheets, nextNew, CellNoFailure, path, sheetName, rangeStr)} :
        \E env \in CellEnvs(Len(d0.calls)) :
        \E d \in {GetSheetDataHandler(files, sheets, nextNew, env, path, sheetName, rangeStr)} :
            ServeCells(CellReq("getSheetData", path, sheetName, 0, 0, rangeStr, << >>, env), d)

Entry(rangeStr, values) == [range |-> rangeStr, values |-> values]

\* maps from ranges to rows of values
RangeMaps ==
    {{},
     {Entry(<<"A", "1">>, <<<<"7">>>>)},
     {Entry(<<"A", "1", Colon, "B", "2">>, <<<<"7", "8">>, <<"6">>>>), Entry(<<"C", "3">>, <<<<"5">>>>)},
     {Entry(<<"A", "1">>, <<<<"7">>>>), Entry(<<"B", "2">>, << >>)},
     {Entry(<<"A", "1">>, <<<<"7">>>>), Entry(<<"E", "9">>, <<<<"5">>>>)},
     {Entry(<<"A", "1">>, <<<<"7">>>>), Entry(<<"A", Colon, "B">>, <<<<"5">>>>)}}

BatchEnvs(n, ranges) ==
    {[failAt |-> e.failAt, failKind |-> e.failKind, ord |-> e.ord, grouping |-> e.grouping,
      other |-> e.other, copyTitle |-> e.copyTitle, iter |-> i1, iter2 |-> i2, iter3 |-> i3] :
        e \in CellEnvs(n), i1 \in Orderings(ranges), i2 \in Orderings(ranges),
        i3 \in Orderings(ranges)}

\* the last loop of the request ran
Iterated(env, d) ==
    (env.iter2 # env.iter \/ env.iter3 # env.iter) =>
        (d.err = NoErr \/ d.err.wrap = "failed to parse range")

BatchUpdateCells ==
    /\ Ready
    /\ \E path \in CellPaths, sheetName \in SheetNames, ranges \in RangeMaps :
        \E r0 \in {getSpreadsheetIdWithContext(files, CellNoFailure, path, << >>)} :
        \E env \in BatchEnvs(Len(r0.calls) + Cardinality(ranges) + 1, ranges) :
        \E d \in {BatchUpdateCellsHandler(files, sheets, nextNew, env, path, sheetName, ranges)} :
            /\ Iterated(env, d)
            /\ ServeCells(CellReq("batchUpdateCells", path, sheetName, 0, 0, EmptyStr, ranges, env), d)

CopySrcPaths == {<<"c">>, <<"a", Slash, "b">>}

CopyDstPaths == {<<"c">>, <<"a", Slash, "b">>, <<"a", Slash, "a", Slash, "b">>}

DstSheetNames == {<<"b">>, <<"c">>}

CopySheet ==
    /\ Ready
    /\ \E srcPath \in CopySrcPaths, srcSheet \in SheetNames, dstPath \in CopyDstPaths,
          dstSheet \in DstSheetNames :
        \E d0 \in {CopySheetHandler(files, sheets, nextNew, CellNoFailure, srcPath, srcSheet, dstPath, dstSheet)} :
        \E env \in CellEnvs(Len(d0.calls)) :
        \E d \in {CopySheetHandler(files, sheets, nextNew, env, srcPath, srcSheet, dstPath, dstSheet)} :
            ServeCells([CellReq("copySheet", srcPath, srcSheet, 0, 0, EmptyStr, << >>, env)
                           EXCEPT !.dst = dstPath, !.newName = dstSheet], d)

NextCells ==
    \/ AddRows \/ AddColumns \/ DeleteRows \/ DeleteColumns
    \/ UpdateCells \/ BatchUpdateCells \/ GetSheetData
    \/ CopySheet
    \/ Return

SpecCells == Init /\ [][NextCells]_vars

(***************************************************************************)
(* Inserting rows and columns                                              *)
(***************************************************************************)
IsAdd == req.op \in {"addRows", "addColumns"}

AddDimension == IF req.op = "addRows" THEN "ROWS" ELSE "COLUMNS"

InsertCalls == {i \in 1..Len(calls) : calls[i].kind = "insertDimension"}

\* C11: an addRows or addColumns request with count > 0 and a start of 1 or
\* more that gets as far as its insert issues exactly one dimension insert,
\* on the rows for addRows and on the columns for addColumns, over the
\* 0-based half-open range [start-1, start-1+count), not inheriting from
\* the row or column before; a successful request has issued it
C11_InsertRange ==
    (IsAdd /\ req.nums[1] > 0 /\ req.nums[2] > 0) =>
        /\ \A i \in InsertCalls :
            /\ i = Len(calls)
            /\ calls[i].api = "Spreadsheets.BatchUpdate"
            /\ calls[i].dimension = AddDimension
            /\ calls[i].startIndex = req.nums[2] - 1
            /\ calls[i].endIndex = req.nums[2] - 1 + req.nums[1]
            /\ calls[i].inheritFromBefore = FALSE
        /\ resp.err = NoErr => InsertCalls # {}

\* addRows(count = 3, startRow = 5) has inserted over [4, 7)
C11_Witness ==
    /\ req.op = "addRows"
    /\ req.nums = <<3, 5>>
    /\ resp.err = NoErr
    /\ calls[Len(calls)].kind = "insertDimension"
    /\ calls[Len(calls)].startIndex = 4
    /\ calls[Len(calls)].endIndex = 7
    /\ Len(sheets["S1"][1].rows) = Len(GridA) + 3
    /\ sheets["S1"][1].rows[5] = BlankRow(3)

\* C12: an addRows or addColumns request with count > 0 and no start (the
\* zero value of the field) that finds its spreadsheet and its tab, and
\* meets no failure of the stores, succeeds and has added count rows or
\* columns at the end of the tab
C12_AppendWithoutStart ==
    (IsAdd /\ req.nums[1] > 0 /\ req.nums[2] = 0 /\ req.env.failAt = 0
       /\ Len(resolved) = 1 /\ req.sheet = <<"a">>) =>
        /\ resp.err = NoErr
        /\ muts = 1
        /\ DimensionSize(sheets[resolved[1]][1].rows, AddDimension)
               = DimensionSize(GridA, AddDimension) + req.nums[1]

\* C12: what the handlers do instead: the request is refused as an invalid
\* argument and nothing is issued to the Sheets store
C12_RejectedWithoutStart ==
    (IsAdd /\ req.nums[1] > 0 /\ req.nums[2] = 0 /\ Len(resolved) = 1) =>
        /\ resp.err.kind = "InvalidArgument"
        /\ resp.err.text \in {"start_row must be a positive number",
                              "start_column must be a positive number"}
        /\ \A i \in 1..Len(calls) : calls[i].api = "Files.List"
        /\ muts = 0 => sheets = InitSheets

C12_Witness ==
    /\ req.op = "addRows"
    /\ req.nums = <<2, 0>>
    /\ req.sheet = <<"a">>
    /\ Len(resolved) = 1
    /\ resp.err.text = "start_row must be a positive number"


(***************************************************************************)
(* Deleting rows and columns                                               *)
(***************************************************************************)
IsDelete == req.op \in {"deleteRows", "deleteColumns"}

DeleteCalls == {i \in 1..Len(calls) : calls[i].kind = "deleteDimension"}

\* the rows of the table in the response, none when there is no table
TableRows ==
    IF Len(resp.out) > 0 /\ resp.out[Len(resp.out)].line = "table"
    THEN resp.out[Len(resp.out)].rows ELSE << >>

\* the number of rows startRow .. startRow+count-1 of the tab up to the
\* last of them that holds a value
RECURSIVE FilledRows(_, _, _)
FilledRows(rows, first, last) ==
    IF last < first THEN 0
    ELSE IF last <= Len(rows) /\ rows[last] # BlankRow(Len(rows[last])) THEN last - first + 1
    ELSE FilledRows(rows, first, last - 1)

\* the delete of a deleteRows request comes right after a successful read
\* of the rows startRow .. startRow+count-1 of the tab and covers the
\* 0-based half-open range [startRow-1, startRow-1+count) of the rows
C13_ReadThenDelete ==
    \A i \in DeleteCalls :
        req.op = "deleteRows" =>
            /\ i = Len(calls)
            /\ i > 1
            /\ calls[i - 1].api = "Values.Get"
            /\ calls[i - 1].ok
            /\ calls[i - 1].range =
                   FullRange(req.sheet, Decimal(req.nums[2]) \o <<Colon>>
                                            \o Decimal(req.nums[2] + req.nums[1] - 1))
            /\ \A j \in 1..(i - 2) : calls[j].api \notin {"Values.Get", "Spreadsheets.BatchUpdate"}
            /\ calls[i].dimension = "ROWS"
            /\ calls[i].startIndex = req.nums[2] - 1
            /\ calls[i].endIndex = req.nums[2] - 1 + req.nums[1]

\* C13: deleteRows(count, startRow) first reads the rows startRow ..
\* startRow+count-1 and only afterwards issues the delete over
\* [startRow-1, startRow-1+count); the table of previous data it returns
\* has the rows that read returned, numbered from startRow: count rows at
\* most and, on the first tab as it is at the start, the rows of the range
\* up to the last one holding a value
C13_Theorem ==
    /\ C13_ReadThenDelete
    /\ (req.op = "deleteRows" /\ resp.err = NoErr) =>
        /\ DeleteCalls # {}
        /\ Len(TableRows) = Len(calls[Len(calls) - 1].values)
        /\ Len(TableRows) <= req.nums[1]
        /\ muts = 1 =>
               Len(TableRows) = FilledRows(GridA, req.nums[2], req.nums[2] + req.nums[1] - 1)
        /\ \A k \in 1..Len(TableRows) : TableRows[k].label = req.nums[2] + k - 1

\* deleteRows(count = 2, startRow = 1) on a tab whose rows 1 and 2 hold
\* values
C13_Witness ==
    /\ req.op = "deleteRows"
    /\ req.nums = <<2, 1>>
    /\ resp.err = NoErr
    /\ calls[Len(calls) - 1].api = "Values.Get"
    /\ calls[Len(calls)].startIndex = 0
    /\ calls[Len(calls)].endIndex = 2
    /\ Len(TableRows) = 2
    /\ Len(sheets["S1"][1].rows) = Len(GridA) - 2

\* C13 as stated: the table of previous data has exactly count rows
C13_Original ==
    /\ C13_ReadThenDelete
    /\ (req.op = "deleteRows" /\ resp.err = NoErr) => Len(TableRows) = req.nums[1]

\* the request has a count, or for a deletion a start, that is not positive
Rejectable ==
    \/ (IsAdd \/ IsDelete) /\ req.nums[1] <= 0
    \/ IsDelete /\ req.nums[2] <= 0

\* C14: addRows, addColumns, deleteRows and deleteColumns with a count <= 0,
\* and deleteRows and deleteColumns with a start <= 0, fail without issuing
\* the read before the deletion or any dimension insert or delete, and
\* leave the stores as they were; the error is InvalidArgument whenever the
\* spreadsheet path has been resolved, and the error of the resolution
\* otherwise
C14_Theorem ==
    Rejectable =>
        /\ resp.err # NoErr
        /\ \A i \in 1..Len(calls) : calls[i].api = "Files.List"
        /\ muts = 0 => sheets = InitSheets /\ files = InitFiles
        /\ Len(resolved) = 1 <=> resp.err.kind = "InvalidArgument"
        /\ Len(resolved) = 0 =>
               /\ resp.err.wrap = "failed to get spreadsheet ID"
               /\ resp.err.kind \in {"InvalidPath", "NotFound", "RemoteCallFailure"}

\* deleteColumns with the start column omitted, on a spreadsheet that exists
C14_Witness ==
    /\ req.op = "deleteColumns"
    /\ req.nums = <<1, 0>>
    /\ Len(resolved) = 1
    /\ resp.err.kind = "InvalidArgument"
    /\ resp.err.text = "start column must be a positive number"
    /\ Len(calls) > 0

\* C14 as stated: every such request is rejected with InvalidArgument
C14_Original ==
    Rejectable =>
        /\ resp.err.kind = "InvalidArgument"
        /\ \A i \in 1..Len(calls) : calls[i].api = "Files.List"


(***************************************************************************)
(* Reading and writing values                                              *)
(***************************************************************************)
ReadCalls == {i \in 1..Len(calls) : calls[i].api = "Values.Get"}

WriteCalls == {i \in 1..Len(calls) : calls[i].api \in {"Values.Update", "Values.BatchUpdate"}}

\* the values shown by the table of the response, without the cells that
\* fill a row up to the width of the table
TableValues ==
    [k \in 1..Len(TableRows) |-> TrimRow(TableRows[k].cells)]

\* C15: an updateCells request with an empty range or empty data fails
\* without reading or writing a value, with InvalidArgument whenever its
\* spreadsheet path has been resolved; otherwise the write, if one is
\* issued, is the last call and comes right after the one read of
\* tab!range, which succeeded; a failed read is followed by no write; and
\* the previous values a successful request reports are the values that
\* read returned
C15_Theorem ==
    req.op = "updateCells" =>
        /\ (req.range = EmptyStr \/ Len(req.data) = 0) =>
            /\ resp.err # NoErr
            /\ ReadCalls = {} /\ WriteCalls = {}
            /\ Len(resolved) = 1 <=> resp.err.kind = "InvalidArgument"
        /\ \A i \in WriteCalls :
            /\ i = Len(calls)
            /\ ReadCalls = {i - 1}
            /\ calls[i - 1].ok
            /\ calls[i - 1].range = FullRange(req.sheet, req.range)
            /\ calls[i].range = FullRange(req.sheet, req.range)
            /\ calls[i].values = req.data
        /\ \A i \in ReadCalls : ~calls[i].ok => WriteCalls = {}
        /\ resp.err = NoErr =>
            /\ WriteCalls # {}
            /\ TableValues = calls[Len(calls) - 1].values
            /\ resp.out[2].n1 = Len(calls[Len(calls) - 1].values)

\* updateCells on A1:B2 of a tab holding 1, 2 / 3 reports those values
C15_Witness ==
    /\ req.op = "updateCells"
    /\ req.range = <<"A", "1", Colon, "B", "2">>
    /\ resp.err = NoErr
    /\ calls[Len(calls) - 1].api = "Values.Get"
    /\ calls[Len(calls)].api = "Values.Update"
    /\ TableValues = <<<<"1", "2">>, <<"3">>>>
    /\ sheets["S1"][1].rows[1][1] = "7"

\* C15 as stated: the rejection of an empty range or of empty data is an
\* InvalidArgument
C15_Original ==
    (req.op = "updateCells" /\ (req.range = EmptyStr \/ Len(req.data) = 0)) =>
        /\ resp.err.kind = "InvalidArgument"
        /\ ReadCalls = {} /\ WriteCalls = {}

\* C17: a getSheetData request whose read returns no row answers with the
\* marker "No data found." after its heading, and with neither a table nor
\* a line of totals
C17_Theorem ==
    (req.op = "getSheetData" /\ ReadCalls # {} /\ calls[Len(calls)].ok
       /\ Len(calls[Len(calls)].values) = 0) =>
        /\ resp.err = NoErr
        /\ Len(resp.out) = 2
        /\ resp.out[2].line = "No data found."
        /\ \A k \in 1..Len(resp.out) :
               resp.out[k].line \notin {"table", "Total: rows x columns"}

\* getSheetData on a tab without values
C17_Witness ==
    /\ req.op = "getSheetData"
    /\ req.sheet = <<"b">>
    /\ req.range = EmptyStr
    /\ resp.err = NoErr
    /\ calls[Len(calls)].api = "Values.Get"
    /\ calls[Len(calls)].values = << >>
    /\ resp.out[Len(resp.out)].line = "No data found."

\* C17 as stated: the response carries the marker and row and column totals
\* of zero
C17_Original ==
    (req.op = "getSheetData" /\ ReadCalls # {} /\ calls[Len(calls)].ok
       /\ Len(calls[Len(calls)].values) = 0) =>
        /\ \E k \in 1..Len(resp.out) : resp.out[k].line = "No data found."
        /\ \E k \in 1..Len(resp.out) :
               /\ resp.out[k].line = "Total: rows x columns"
               /\ resp.out[k].n1 = 0
               /\ resp.out[k].n2 = 0
        /\ \A k \in 1..Len(resp.out) : resp.out[k].line # "table"


\* the cells of the data of a set of entries
RECURSIVE CellSum(_)
CellSum(entries) ==
    IF entries = {} THEN 0
    ELSE LET e == CHOOSE x \in entries : TRUE
         IN  CellCount(e.values) + CellSum(entries \ {e})

\* C16: a batchUpdateCells request with one range or more issues at most
\* one write; the write is the last call and comes after one successful
\* read for each requested range, and it carries every requested range
\* with its data; no write is issued when a range has empty data or a read
\* has failed; and the number of updated cells a successful request reports
\* is the sum of the cells written for the ranges
C16_Theorem ==
    (req.op = "batchUpdateCells" /\ req.data # {}) =>
        /\ \A i \in WriteCalls :
            /\ i = Len(calls)
            /\ calls[i].api = "Values.BatchUpdate"
            /\ Cardinality(ReadCalls) = Cardinality(req.data)
            /\ \A j \in ReadCalls : j < i /\ calls[j].ok
            /\ {calls[j].range : j \in ReadCalls}
                   = {FullRange(req.sheet, e.range) : e \in req.data}
            /\ Len(calls[i].values) = Cardinality(req.data)
            /\ {calls[i].values[k] : k \in 1..Len(calls[i].values)}
                   = {Entry(FullRange(req.sheet, e.range), e.values) : e \in req.data}
        /\ (\E e \in req.data : Len(e.values) = 0) => WriteCalls = {}
        /\ (\E j \in ReadCalls : ~calls[j].ok) => WriteCalls = {}
        /\ resp.err = NoErr =>
            /\ WriteCalls # {}
            /\ resp.out[1].n1 = CellSum(req.data)

\* two ranges of three cells and one cell written by one call
C16_Witness ==
    /\ req.op = "batchUpdateCells"
    /\ Cardinality(req.data) = 2
    /\ resp.err = NoErr
    /\ Cardinality(ReadCalls) = 2
    /\ Cardinality(WriteCalls) = 1
    /\ resp.out[1].n1 = 4
    /\ sheets["S1"][1].rows[3][3] = "5"
    /\ sheets["S1"][1].rows[2][1] = "6"


(***************************************************************************)
(* Copying a tab                                                           *)
(***************************************************************************)
CopyCalls == {i \in 1..Len(calls) : calls[i].api = "Sheets.CopyTo"}

RenameCalls == {i \in 1..Len(calls) : calls[i].kind = "updateSheetProperties:title"}

\* the copy succeeded and the rename that followed it failed
RenameFailed ==
    /\ req.op = "copySheet"
    /\ RenameCalls # {}
    /\ ~calls[Len(calls)].ok

\* the tabs of the destination that the request added
NewTabs ==
    {i \in 1..Len(sheets[resolved[2]]) :
        \A k \in 1..Len(InitSheets[resolved[2]]) :
            InitSheets[resolved[2]][k].sheetId # sheets[resolved[2]][i].sheetId}

\* a copySheet request resolves the source document, the destination
\* document and the source tab, then issues the copy, then one rename to
\* the asked title aimed at the tab id the copy returned, in the
\* destination, and issues nothing after the rename
C18_Protocol ==
    req.op = "copySheet" =>
        /\ \A i \in CopyCalls :
            /\ Len(resolved) = 2
            /\ calls[i].target = resolved[1]
            /\ calls[i].parent = resolved[2]
            /\ calls[i - 1].api = "Spreadsheets.Get" /\ calls[i - 1].ok
            /\ calls[i - 1].target = resolved[1]
            /\ \A j \in 1..(i - 2) : calls[j].api = "Files.List"
            /\ i >= Len(calls) - 1
        /\ \A j \in RenameCalls :
            /\ j = Len(calls)
            /\ CopyCalls = {j - 1}
            /\ calls[j - 1].ok
            /\ calls[j].api = "Spreadsheets.BatchUpdate"
            /\ calls[j].target = resolved[2]
            /\ calls[j].sheetId = calls[j - 1].ret[1]
            /\ calls[j].name = req.newName
        /\ resp.err = NoErr => RenameCalls # {} /\ calls[Len(calls)].ok

IsReadThenWrite == req.op \in {"updateCells", "batchUpdateCells", "deleteRows", "deleteColumns"}

\* the request r as the handler answers it from the stores fs, sh, nn under
\* the store behaviour env
Answer(r, fs, sh, nn, env) ==
    CASE r.op = "updateCells" ->
             UpdateCellsHandler(fs, sh, nn, env, r.path, r.sheet, r.range, r.data)
      [] r.op = "batchUpdateCells" ->
             BatchUpdateCellsHandler(fs, sh, nn, env, r.path, r.sheet, r.data)
      [] r.op = "deleteRows" ->
             DeleteRowsHandler(fs, sh, nn, env, r.path, r.sheet, r.nums[1], r.nums[2])
      [] r.op = "deleteColumns" ->
             DeleteColumnsHandler(fs, sh, nn, env, r.path, r.sheet, r.nums[1], r.nums[2])

\* the values the reads of the request returned, in the order of the reads
ValuesRead ==
    [k \in 1..Cardinality(ReadCalls) |->
        calls[Len(calls) - Cardinality(ReadCalls) + k - 1].values]

\* the values the cells held when the write or the delete reached them
ValuesOverwritten ==
    IF req.op = "batchUpdateCells" THEN calls[Len(calls)].before ELSE <<calls[Len(calls)].before>>

\* the request reads or deletes the first cell of the first tab, the one
\* the other writer changes
TouchesFirstCell ==
    /\ req.sheet = <<"a">>
    /\ CASE req.op = "updateCells" ->
                req.range \in {<<"A", "1">>, <<"A", "1", Colon, "B", "2">>, <<"A", Colon, "B">>}
         [] req.op = "batchUpdateCells" ->
                \E e \in req.data :
                    e.range \in {<<"A", "1">>, <<"A", "1", Colon, "B", "2">>, <<"A", Colon, "B">>}
         [] OTHER -> req.nums[2] = 1

\* the request went as quiet, the same request without the other writer,
\* goes: the same error or output, the same calls with the same results,
\* the write or delete as the last call; and where the cell the other
\* writer changed is one the request read, the previous data it read and
\* reports differs from the values its write overwrote
Unnoticed(quiet) ==
    /\ resp.err = quiet.err
    /\ resp.out = quiet.out
    /\ Len(calls) = Len(quiet.calls)
    /\ \A i \in 1..Len(calls) :
           calls[i].api = quiet.calls[i].api /\ calls[i].ok = quiet.calls[i].ok
    /\ (DeleteCalls \cup WriteCalls) = {Len(calls)}
    /\ TouchesFirstCell => ValuesRead # ValuesOverwritten
    /\ (resp.err = NoErr /\ req.op = "updateCells") => <<TableValues>> = ValuesRead

C19_Step ==
    (IsReadThenWrite' /\ req'.env.other = "write") =>
        \E quiet \in {Answer(req', files, sheets, nextNew, [req'.env EXCEPT !.other = "none"])} :
            Unnoticed(quiet)'

\* C19: when another writer changes a cell between the read and the write
\* of an updateCells, batchUpdateCells, deleteRows or deleteColumns request,
\* the request answers as it does without that writer, its write landing
\* as it lands without the writer, and where the changed cell is one the
\* request read, the previous data it reports differs from the values its
\* write overwrote
C19_Theorem == [][C19_Step]_vars

\* updateCells on A1 reports the 1 it read while its write replaced the 9
\* of the other writer
C19_Witness ==
    /\ req.op = "updateCells"
    /\ req.env.other = "write"
    /\ req.range = <<"A", "1">>
    /\ resp.err = NoErr
    /\ TableValues = <<<<"1">>>>
    /\ calls[Len(calls)].before = <<<<"9">>>>
    /\ sheets["S1"][1].rows[1][1] = "7"


(***************************************************************************)
(* The kinds of the objects a resolution goes through                      *)
(***************************************************************************)
IsResolution == req.op \in {"resolve", "resolveParentAndLeaf", "resolveSpreadsheet"}

\* C20: every lookup of a resolution after the first is made among the
\* children of a folder, so that no resolution goes through an object that
\* is not a folder, and a successful resolveSpreadsheet returns a
\* spreadsheet that is not trashed
C20_FoldersOnly ==
    IsResolution =>
        /\ \A i \in 1..Len(calls) :
               calls[i].parent \in DOMAIN files =>
                   files[calls[i].parent].mimeType = MimeFolder
        /\ (req.op = "resolveSpreadsheet" /\ resp.err = NoErr) =>
               /\ files[resp.id].mimeType = MimeSpreadsheet
               /\ ~files[resp.id].trashed

\* resolve("a/b") where the root holds a plain file a and a folder a, and
\* the store lists the file first: the lookup of b is made under the file
\* and the path, which exists, is reported missing
C20_ThroughFile ==
    /\ req.op = "resolve"
    /\ req.path = <<"a", Slash, "b">>
    /\ Len(calls) = 2
    /\ calls[1].ret[1] = "X1"
    /\ calls[2].parent = "X1"
    /\ files["X1"].mimeType = MimePlain
    /\ resp.err.kind = "NotFound"


(***************************************************************************)
(* Several objects of one name                                             *)
(***************************************************************************)
\* the lookups of the request that found more than one object
Ambiguous == {i \in 1..Len(calls) : calls[i].api = "Files.List" /\ Len(calls[i].ret) > 1}

\* the same request made once more against the same store, which lists
\* its results in the same order
Again ==
    CASE req.op = "resolve" -> getFileIDByPathWithContext(files, req.env, req.path, << >>)
      [] req.op = "resolveSpreadsheet" ->
             getSpreadsheetIdWithContext(files, req.env, req.path, << >>)
      [] req.op = "resolveParentAndLeaf" ->
             getParentIDAndFileName(files, req.env, req.path, << >>)

\* C21: a lookup that finds several objects of the segment's name does not
\* make the resolution fail: the resolution goes on with the first of them
\* in the order the store returned, as the parent of the next lookup or,
\* when the lookup is the last one, as the id it returns (unless the Drive
\* service cannot be obtained for the next lookup); and the same request
\* made again with the store listing in the same order resolves to
\* the same id
C21_Theorem ==
    IsResolution =>
        /\ \A i \in Ambiguous :
            /\ calls[i].ok
            /\ i < Len(calls) => calls[i + 1].parent = calls[i].ret[1]
            /\ i = Len(calls) =>
                   \/ resp.err = NoErr /\ resp.id = calls[i].ret[1]
                   \/ /\ resp.err.text = "failed to get drive service"
                      /\ req.env.failKind = "service"
                      /\ req.env.failAt = i + 1
        /\ Ambiguous # {} => (Again.err = resp.err /\ Again.id = resp.id)

\* resolve("a") with a folder a and a plain file a in the root, listed in
\* the one order and in the other
C21_Witness ==
    /\ req.op = "resolve"
    /\ req.path = <<"a">>
    /\ Ambiguous = {1}
    /\ calls[1].ret = <<"X1", "F1">>
    /\ resp.err = NoErr
    /\ resp.id = "X1"

(***************************************************************************)
(* The parent folder and the file name of a path                           *)
(***************************************************************************)
Segments(p) == Split(Clean(p))

\* all segments of the normalized path but the last, as a path
DirectoryPortion(p) == Join(Prefix(Segments(p), Len(Segments(p)) - 1))

LastSegment(p) == Segments(p)[Len(Segments(p))]

EmptyPath(p) == Clean(p) = EmptyStr \/ Clean(p) = <<Dot>>

\* the lexical check of the resolution turns the path down
CheckRejects(p) ==
    getFileIDByPathWithContext(files, NoFailure(IdOrder), p, << >>).err.kind = "InvalidPath"

OfDirectory(p) == getFileIDByPathWithContext(files, req.env, DirectoryPortion(p), << >>)

LeafExists(parent, name) ==
    \E f \in DOMAIN files : files[f].name = name /\ files[f].parent = parent /\ ~files[f].trashed

C22_Resolves(p) ==
    /\ resp.err = OfDirectory(p).err
    /\ calls = OfDirectory(p).calls
    /\ Len(calls) < Len(Segments(p))
    /\ \A i \in 1..Len(calls) : calls[i].name = Segments(p)[i]
    /\ resp.err = NoErr => (resp.id = OfDirectory(p).id /\ resp.name = LastSegment(p))

\* C22 as stated: resolveParentAndLeaf fails with InvalidPath when the
\* normalized path is empty or '.', and for every other path returns the
\* resolution of all segments but the last together with the last segment,
\* without looking the last segment up
C22_Original ==
    req.op = "resolveParentAndLeaf" =>
        IF EmptyPath(req.path) THEN Rejected ELSE C22_Resolves(req.path)

\* C22 amended: resolveParentAndLeaf fails with InvalidPath, without a store
\* call, when the lexical check of the resolution turns the path down or the
\* normalized path is empty or '.'; otherwise it returns the resolution of
\* all segments but the last together with the last segment, never looks the
\* last segment up, and succeeds whether or not the leaf exists
C22_Theorem ==
    req.op = "resolveParentAndLeaf" =>
        IF CheckRejects(req.path) \/ EmptyPath(req.path) THEN Rejected ELSE C22_Resolves(req.path)

C22_Witness ==
    /\ req.op = "resolveParentAndLeaf" /\ req.path = <<"a", Slash, "a", Slash, "a">>
    /\ resp.err = NoErr /\ resp.id = "F2" /\ resp.name = <<"a">>
    /\ Len(calls) = 2 /\ ~LeafExists("F2", <<"a">>)

\* a leaf that exists is not looked up either
C22_WitnessLeafExists ==
    /\ req.op = "resolveParentAndLeaf" /\ req.path = <<"a", Slash, "b">>
    /\ resp.err = NoErr /\ resp.id = "F1" /\ Len(calls) = 1 /\ LeafExists("F1", <<"b">>)

(***************************************************************************)
(* The columns read before a deletion                                      *)
(***************************************************************************)
\* the range a deleteColumns request reads, as the code writes it
ColumnsToDelete == columnIndexToLetter(req.nums[2]) \o <<Colon>> \o columnIndexToLetter(req.nums[2] + req.nums[1] - 1)

\* the two ends of that range as the store reads them
FirstColumn == A1Point(SplitBy(ColumnsToDelete, Colon, 1, EmptyStr)[1])

LastColumn == A1Point(SplitBy(ColumnsToDelete, Colon, 1, EmptyStr)[2])

UsesRangeStart == req.op \in {"updateCells", "batchUpdateCells", "getSheetData"}

StartCell(rangeStr) == SplitBy(rangeStr, Colon, 1, EmptyStr)[1]

\* the column and row startIndexFromRange gives depend on the start cell alone
StartCellOnly(rangeStr) ==
    /\ startIndexFromRange(rangeStr).col = startIndexFromRange(StartCell(rangeStr)).col
    /\ startIndexFromRange(rangeStr).row = startIndexFromRange(StartCell(rangeStr)).row
    /\ startIndexFromRange(rangeStr).err.kind = startIndexFromRange(StartCell(rangeStr)).err.kind

ParseFailed == resp.err.wrap = "failed to parse range"

AllCallsSucceeded == \A i \in 1..Len(calls) : calls[i].ok

\* what startIndexFromRange gives for the range of the request depends on
\* its start cell alone
C24_StartCellOnly ==
    (UsesRangeStart /\ req.op # "batchUpdateCells") => StartCellOnly(req.range)

\* C24: startIndexFromRange looks at the start cell of the range alone, and
\* an updateCells, batchUpdateCells or getSheetData request never fails
\* because startIndexFromRange cannot parse a range: a request whose store
\* calls all succeeded answers without an error
C24_ParseNeverDecides ==
    UsesRangeStart =>
        /\ req.op # "batchUpdateCells" => StartCellOnly(req.range)
        /\ ~ParseFailed
        /\ (AllCallsSucceeded /\ (WriteCalls # {} \/ (req.op = "getSheetData" /\ ReadCalls # {})))
               => resp.err = NoErr

\* a column-only range the store has written, reported as a failure
C24_WrittenThenFailed ==
    /\ req.op = "updateCells" /\ req.range = <<"A", Colon, "B">>
    /\ WriteCalls # {} /\ AllCallsSucceeded /\ ParseFailed

(***************************************************************************)
(* Errors and applied writes                                               *)
(***************************************************************************)
AppliedWrites == {i \in WriteCalls : calls[i].ok}

\* C28: an updateCells or batchUpdateCells request that answers with an
\* error has applied no cell write to the store
C28_ErrorMeansUnwritten ==
    (req.op \in {"updateCells", "batchUpdateCells"} /\ resp.err # NoErr) => AppliedWrites = {}

\* a batch whose write the store applied, answered with an error
C28_BatchWrittenThenFailed ==
    /\ req.op = "batchUpdateCells" /\ resp.err # NoErr /\ AppliedWrites # {}

(***************************************************************************)
(* The order of the ranges of a batch                                      *)
(***************************************************************************)
\* the same request on the same stores, its maps iterated in the given orders
Rerun(r, fs, sh, nn, i1, i2, i3) ==
    BatchUpdateCellsHandler(fs, sh, nn, [r.env EXCEPT !.iter = i1, !.iter2 = i2, !.iter3 = i3],
                            r.path, r.sheet, r.data)

SameRun(d, log, answer) == d.calls = log /\ d.err = answer.err /\ d.out = answer.out

C25_Step ==
    req'.op = "batchUpdateCells" =>
        /\ \A i1 \in Orderings(req'.data), i2 \in Orderings(req'.data), i3 \in Orderings(req'.data) :
               SameRun(Rerun(req', files, sheets, nextNew, i1, i2, i3), calls', resp')
        /\ resp'.err = NoErr => req'.env.iter3 = req'.env.iter2

\* C25: a batchUpdateCells request is answered in one way only: however the
\* maps of the request are iterated, the same request on the same stores
\* issues the same reads and the same write in the same order and returns
\* the same response, and the ranges are listed in the order of their tables
C25_Deterministic == [][C25_Step]_vars

\* the two ranges of a request read in one order and tabulated in the other
C25_TwoOrders ==
    /\ req.op = "batchUpdateCells" /\ resp.err = NoErr /\ Cardinality(req.data) = 2
    /\ req.env.iter2 # req.env.iter

(***************************************************************************)
(* All the operations (SpecAll)                                            *)
(***************************************************************************)
NextAll == Next \/ NextCells

SpecAll == Init /\ [][NextAll]_vars

WritingApis == MutatingApis \cup {"Values.Update", "Values.BatchUpdate", "Sheets.CopyTo"}

MutatingCalls == {i \in 1..Len(calls) : calls[i].api \in WritingApis}

FailedCalls == {i \in 1..Len(calls) : ~calls[i].ok}

\* C27: no operation issues a call again: a store call that failed is the
\* last call of its request, which answers with an error; a request
\* issues one mutating store call at most, but for copySheet, which issues
\* two at most, the copy and then, after the copy succeeded, the rename
C27_Theorem ==
    ~Idle =>
        /\ \A i \in FailedCalls : i = Len(calls) /\ resp.err # NoErr
        /\ \A i \in MutatingCalls : \A j \in MutatingCalls : i # j => calls[i].api # calls[j].api
        /\ req.op # "copySheet" => Cardinality(MutatingCalls) <= 1
        /\ req.op = "copySheet" =>
               /\ Cardinality(MutatingCalls) <= 2
               /\ \A i \in MutatingCalls :
                      \/ calls[i].api = "Sheets.CopyTo"
                      \/ /\ calls[i].api = "Spreadsheets.BatchUpdate"
                         /\ i - 1 \in MutatingCalls
                         /\ calls[i - 1].api = "Sheets.CopyTo" /\ calls[i - 1].ok

\* a copySheet whose copy succeeded and whose rename failed: two mutating
\* calls, the failed one last
C27_Witness ==
    /\ req.op = "copySheet" /\ Cardinality(MutatingCalls) = 2
    /\ FailedCalls = {Len(calls)} /\ resp.err # NoErr
    /\ calls[Len(calls)].api = "Spreadsheets.BatchUpdate"

\* a renameFile whose one mutating call the store applied
C27_WitnessDrive ==
    /\ req.op = "renameFile" /\ Cardinality(MutatingCalls) = 1 /\ resp.err = NoErr

(***************************************************************************)
(* What the lexical check turns down                                       *)
(***************************************************************************)
TraversalRejected ==
    resp.err.text = "invalid path: directory traversal is not allowed" /\ calls = << >>

\* the path is relative and its normalized form has no '..' segment
StaysBelowRoot(p) ==
    /\ ~HasPrefix(p, <<Slash>>)
    /\ \A i \in 1..Len(Segments(p)) : Segments(p)[i] # DotDot

\* every name sent to the store is a proper segment name
C30_ProperSegments ==
    IsResolution =>
        \A i \in 1..Len(calls) : calls[i].name \notin {EmptyStr, <<Dot>>, DotDot}

\* C30: the lexical check turns down only the paths that are absolute or
\* whose normalized form leaves the root: a relative path whose normalized
\* form has no '..' segment passes it, also when the name of its first
\* segment begins with two dots, and every segment name sent to the store
\* is non-empty and is neither '.' nor '..'
C30_RejectsOnlyEscapes ==
    IsResolution =>
        /\ StaysBelowRoot(req.path) => ~TraversalRejected
        /\ \A i \in 1..Len(calls) : calls[i].name \notin {EmptyStr, <<Dot>>, DotDot}

\* a name that begins with two dots, turned down as a traversal
C30_DottedNameRejected ==
    /\ req.op = "resolve" /\ req.path = <<Dot, Dot, "a", Slash, "b">>
    /\ TraversalRejected

(***************************************************************************)
(* Tokens and the callback server (SpecAuth)                               *)
(*                                                                         *)
(* One goroutine asks for clients, one getClient at a time.  auth.pc is    *)
(* its position; the server goroutine, the callback handler and the        *)
(* goroutine that shuts the server down run beside it.                     *)
(***************************************************************************)
MaxTime == 2

MaxTokens == 3

\* the time a token of the token endpoint lives: longer than the time the
\* model follows
TokenLife == MaxTime + 1

\* t.Expiry.Before(time.Now())
Before(t) == t.expiry < auth.now

\* the token the token endpoint issues next
Fresh == Token(auth.issued + 1, auth.now + TokenLife, TRUE)

AuthStep(a) ==
    /\ auth' = a
    /\ UNCHANGED <<files, sheets, grouping, nextNew, muts, req, resp, calls, resolved>>

Panic(a) == [a EXCEPT !.pc = "panic", !.result = "panic"]

Return_getClient(a, result, client) ==
    [a EXCEPT !.pc = "idle", !.site = "none", !.result = result, !.client = client]

\* time passes
Tick ==
    /\ auth.now < MaxTime
    /\ AuthStep([auth EXCEPT !.now = @ + 1])

\* the token file an earlier run left behind, as the process finds it
TokenFileFound ==
    /\ ~auth.started
    /\ auth.file = NoFile
    /\ \E f \in {CorruptFile} \cup {TokenFile(Token(0, e, r)) : e \in {0, MaxTime}, r \in BOOLEAN} :
           AuthStep([auth EXCEPT !.file = f])

getClient ==
    /\ auth.pc = "idle"
    /\ AuthStep([auth EXCEPT !.pc = IF auth.token = NilToken THEN "tokenFromFile" ELSE "checkExpiry",
                             !.started = TRUE, !.result = "none", !.client = NilToken,
                             !.tok = NilToken, !.newToken = NilToken])

tokenFromFile ==
    /\ auth.pc = "tokenFromFile"
    /\ AuthStep(CASE auth.file.state = "none" ->
                         [auth EXCEPT !.tok = NilToken, !.pc = "HandleFunc", !.site = "first"]
                  [] auth.file.state = "corrupt" ->
                         [auth EXCEPT !.tok = ZeroToken, !.pc = "HandleFunc", !.site = "first"]
                  [] auth.file.state = "token" ->
                         [auth EXCEPT !.tok = auth.file.tok, !.pc = "setToken"])

\* getTokenFromWeb up to http.HandleFunc, which panics for a pattern that
\* is registered already
HandleFunc ==
    /\ auth.pc = "HandleFunc"
    /\ AuthStep(IF auth.registered
                THEN Panic([auth EXCEPT !.webCalls = @ + 1])
                ELSE [auth EXCEPT !.registered = TRUE, !.server = "new", !.codeCh = 0, !.errCh = 0,
                                  !.webTok = NilToken, !.webErr = "", !.webCalls = @ + 1,
                                  !.pc = "goListen"])

\* go func() { server.ListenAndServe() }, then the browser is opened
goListen ==
    /\ auth.pc = "goListen"
    /\ AuthStep([auth EXCEPT !.server = "starting", !.pc = "select"])

\* the server goroutine: the port is bound, or it is in use and the error
\* goes to errCh
ListenAndServe ==
    /\ auth.server = "starting"
    /\ \/ /\ auth.port = "free"
          /\ AuthStep([auth EXCEPT !.server = "listening", !.port = "bound"])
       \/ /\ auth.errCh = 0
          /\ AuthStep([auth EXCEPT !.server = "failed", !.errCh = 1])

\* the browser reaches /oauth2callback, with a code or without one
Callback ==
    /\ auth.server = "listening"
    /\ auth.registered
    /\ \/ /\ auth.codeCh = 0
          /\ AuthStep([auth EXCEPT !.codeCh = 1,
                                   !.shutdown = IF @ = "none" THEN "pending" ELSE @])
       \/ /\ auth.errCh = 0
          /\ AuthStep([auth EXCEPT !.errCh = 1])

\* the goroutine of the handler: time.Sleep, then server.Shutdown
Shutdown ==
    /\ auth.shutdown = "pending"
    /\ AuthStep([auth EXCEPT !.shutdown = "done", !.server = "closed", !.port = "free"])

\* case code := <-codeCh, with config.Exchange
selectCode ==
    /\ auth.pc = "select"
    /\ auth.codeCh = 1
    /\ \/ /\ auth.issued < MaxTokens
          /\ AuthStep([auth EXCEPT !.codeCh = 0, !.webTok = Fresh, !.issued = @ + 1,
                                   !.pc = "returned"])
       \/ AuthStep([auth EXCEPT !.codeCh = 0, !.pc = "returned",
                                !.webErr = "failed to exchange authorization code"])

\* case err := <-errCh
selectErr ==
    /\ auth.pc = "select"
    /\ auth.errCh = 1
    /\ AuthStep([auth EXCEPT !.errCh = 0, !.pc = "returned",
                             !.webErr = "error during authentication process"])

\* case <-time.After(2 * time.Minute)
selectTimeout ==
    /\ auth.pc = "select"
    /\ AuthStep([auth EXCEPT !.pc = "returned", !.webErr = "authentication timed out"])

\* getTokenFromWeb has returned to getClient
getTokenFromWebReturned ==
    /\ auth.pc = "returned"
    /\ AuthStep(With([auth EXCEPT !.webDone = @ + 1], LAMBDA a :
           IF a.site = "first"
           THEN IF a.webErr # "" THEN Return_getClient(a, "unable to get token", NilToken)
                ELSE [a EXCEPT !.pc = "saveToken"]
           ELSE IF a.webErr # "" THEN Return_getClient(a, "unable to get new token", NilToken)
                ELSE [a EXCEPT !.newToken = a.webTok, !.pc = "saveRefreshed"]))

\* saveToken: os.Create fails, or the file is created and the encoding
\* fails, or the token is written
SaveOutcomes == {"written", "not created", "not encoded"}

saveToken(a, token, outcome) ==
    CASE outcome = "written" -> [a EXCEPT !.file = TokenFile(token)]
      [] outcome = "not created" -> a
      [] outcome = "not encoded" -> [a EXCEPT !.file = CorruptFile]

\* saveToken(g.cfg.TokenPath, tok) with the token of the web flow
saveTokenFromWeb ==
    /\ auth.pc = "saveToken"
    /\ \E outcome \in SaveOutcomes :
           AuthStep(With(saveToken(auth, auth.webTok, outcome), LAMBDA a :
               IF outcome # "written" THEN Return_getClient(a, "unable to save token", NilToken)
               ELSE [a EXCEPT !.pc = "setToken"]))

\* g.token = tok, tok being the variable tokenFromFile was assigned to
setToken ==
    /\ auth.pc = "setToken"
    /\ AuthStep([auth EXCEPT !.token = auth.tok, !.pc = "checkExpiry"])

\* g.token.Expiry.Before(time.Now()), then config.Client(ctx, g.token)
checkExpiry ==
    /\ auth.pc = "checkExpiry"
    /\ AuthStep(IF auth.token = NilToken THEN Panic(auth)
                ELSE IF Before(auth.token) THEN [auth EXCEPT !.pc = "TokenSource"]
                ELSE Return_getClient(auth, "ok", auth.token))

\* config.TokenSource(ctx, g.token).Token(): a new token, or an error, the
\* only outcome for a token without a refresh token
TokenSource ==
    /\ auth.pc = "TokenSource"
    /\ \/ /\ auth.token.refresh
          /\ auth.issued < MaxTokens
          /\ AuthStep([auth EXCEPT !.newToken = Fresh, !.issued = @ + 1, !.pc = "saveRefreshed"])
       \/ AuthStep([auth EXCEPT !.site = "refresh", !.pc = "HandleFunc"])

\* saveToken(g.cfg.TokenPath, newToken), g.token = newToken and the client
saveRefreshed ==
    /\ auth.pc = "saveRefreshed"
    /\ \E outcome \in SaveOutcomes :
           AuthStep(With(saveToken(auth, auth.newToken, outcome), LAMBDA a :
               IF outcome # "written"
               THEN Return_getClient(a, "unable to save refreshed token", NilToken)
               ELSE Return_getClient([a EXCEPT !.token = a.newToken], "ok", a.newToken)))

\* the steps of the goroutine inside getClient
Running ==
    \/ tokenFromFile \/ HandleFunc \/ goListen \/ selectCode \/ selectErr \/ selectTimeout
    \/ getTokenFromWebReturned \/ saveTokenFromWeb \/ setToken \/ checkExpiry \/ TokenSource
    \/ saveRefreshed

NextAuth ==
    \/ Tick \/ TokenFileFound \/ getClient
    \/ tokenFromFile \/ HandleFunc \/ goListen \/ ListenAndServe \/ Callback \/ Shutdown
    \/ selectCode \/ selectErr \/ selectTimeout
    \/ getTokenFromWebReturned \/ saveTokenFromWeb \/ setToken \/ checkExpiry \/ TokenSource
    \/ saveRefreshed

SpecAuth == Init /\ [][NextAuth]_vars

\* the goroutines are scheduled and the timer of the select fires
SpecAuthLive ==
    /\ Init /\ [][NextAuth]_vars
    /\ WF_vars(Running) /\ WF_vars(ListenAndServe) /\ WF_vars(Shutdown)

(***************************************************************************)
(* The client getClient returns                                            *)
(***************************************************************************)
\* getClient returns a client in this step
ReturnsClient == auth.pc # "idle" /\ auth'.pc = "idle" /\ auth'.result = "ok"

\* the cached token is set, unexpired, persisted in the token file and the
\* token of the client
CachedAndPersisted ==
    /\ auth.token # NilToken
    /\ ~Before(auth.token)
    /\ auth.file = TokenFile(auth.token)
    /\ auth.client = auth.token

\* a client is returned with the cached token set, unexpired, persisted in
\* the token file and used by the client
C29_ReturnedClient == [][ReturnsClient => CachedAndPersisted']_vars

\* the web flow of a first run gave a token and the token is in the file
FirstRunAuthorized ==
    /\ auth.site = "first"
    /\ auth.webTok # NilToken
    /\ auth.file = TokenFile(auth.webTok)

C29_Step ==
    /\ ReturnsClient => CachedAndPersisted'
    /\ (FirstRunAuthorized /\ auth.pc = "checkExpiry") =>
           (auth'.pc = "checkExpiry" \/ (auth'.result = "ok" /\ auth'.token = auth.webTok))

\* C29: getClient returns a client with the cached token set, unexpired,
\* equal to the token in the token file and used by the client; on a first
\* run without a token file the token of the web flow is saved, cached and
\* a client is returned
C29_ClientAfterFirstRun == [][C29_Step]_vars

\* a first run: the token of the web flow is in the file, the cached token
\* is nil and getClient has panicked
C29_FirstRunPanics ==
    /\ auth.pc = "panic" /\ FirstRunAuthorized /\ auth.token = NilToken /\ auth.webCalls = 1

(***************************************************************************)
(* The callback listener (SpecAuthLive)                                    *)
(***************************************************************************)
\* http.HandleFunc panicked: the pattern was registered already
RegistrationPanicked == auth.pc = "panic" /\ auth.webCalls > auth.webDone

\* the first getTokenFromWeb of a process returns
C26_FirstReturns == (auth.pc = "HandleFunc" /\ ~auth.registered) ~> (auth.pc = "returned")

\* a callback that brought a code is followed by the shutdown of the server
C26_ShutdownAfterCode == (auth.shutdown = "pending") ~> (auth.port = "free")

\* C26: every getTokenFromWeb returns in the end, after it has returned
\* the listener on the callback port is shut down, and a later
\* getTokenFromWeb registers its handler without a panic
C26_Transient ==
    /\ (auth.pc = "HandleFunc") ~> (auth.pc = "returned")
    /\ (auth.pc = "returned") ~> (auth.port = "free")
    /\ [](~RegistrationPanicked)

\* the listener left bound after getTokenFromWeb timed out
C26_BoundAfterTimeout ==
    /\ auth.pc = "idle" /\ auth.webErr = "authentication timed out"
    /\ auth.port = "bound" /\ auth.shutdown = "none"

====
